---- MODULE Spec2Model ----
(***************************************************************************)
(* The combined-stream WebSocket client of                                 *)
(* src/app/utils/binance_websocket_client.py as a state machine.           *)
(*                                                                         *)
(* The client runs on one asyncio event loop: a task runs without          *)
(* interruption from one suspension point (an await that really waits) to  *)
(* the next.  Every action below is therefore "task t is resumed at the    *)
(* await it is suspended on and runs to its next await"; the code between  *)
(* two awaits is executed by Run, one source statement group (a "label",   *)
(* named after its source line) at a time.  Labels "wNN" are suspension    *)
(* points at source line NN, "rNN" is the code right after the await (or   *)
(* the call) of line NN returned, "LNN" is code starting at line NN.       *)
(*                                                                         *)
(* CancelledError is taken to be a BaseException (Python >= 3.8): the      *)
(* "except Exception" clauses of the client do not catch a cancellation.   *)
(***************************************************************************)
EXTENDS Integers, Sequences, FiniteSets, TLC

(* ------------------------------- bounds ------------------------------- *)
\* API calls the callers make in one run
MaxCalls == 2
MaxTime == 16
\* sockets websockets.connect() opens successfully in one run
MaxSockets == 2
\* connection attempts that fail in one run
MaxFailures == 1
\* inbound frames the peer delivers in one run
MaxFrames == 2
\* the prices a kline frame may carry
MaxPrice == 2
\* connection attempts that are refused in one run of the backoff specification
MaxRefused == 4
\* per-stream client: API calls made, sockets opened
MaxStreamCalls == 2
MaxStreamSockets == 2
\* the pacing specification: streams in the registry, seconds on the clock
MaxBatches == 6
MaxPacingTime == 120
\* REST client: calls made, requests sent in one call, and the depth of
\* nested calls at which the interpreter raises RecursionError
MaxRestCalls == 2
MaxRequests == 5
MaxRestDepth == 4

Streams == {"s1", "s2"}
Callers == {"c1", "c2"}
Handler == "h"
Tasks == Callers \cup {Handler}

(* -------------------------- program constants ------------------------- *)
initial_reconnect_delay == 1
max_reconnect_delay == 300
connection_cooldown == 10
subscription_batch_size == 1
subscription_batch_delay == 10
global_pause_interval == 5
global_pause_duration == 30
initial_too_many_requests_pause == 60

None == 0
Free == "free"
NoValue == "-"

VARIABLES
  ws,                      \* self.ws: None, or the id of the socket object held
  running,                 \* self.running
  subscriptions,           \* self.subscriptions
  message_handler_task,    \* self.message_handler_task: [gen, state, failed]
  ws_lock,                 \* self.ws_lock: Free or the task holding it
  recv_lock,               \* self._recv_lock
  message_queue,           \* self.message_queue
  reconnect_delay,         \* self.reconnect_delay
  last_connection_attempt, \* self.last_connection_attempt
  stack,                   \* per task: the frames of the coroutines it is in
  result,                  \* per caller: what its last finished API call returned
  live,                    \* transport: the sockets that are open end to end
  opened,                  \* transport: sockets opened so far (ids 1..opened)
  outbound,                \* transport: the frames written, in order
  hash_order,              \* the interpreter's iteration order of a set of stream names
  clockOn,                 \* whether this specification tracks time
  now,                     \* the clock (seconds since the client was built)
  cooling,                 \* clock abstracted away: the cooldown window is still open
  wake,                    \* per task: when its asyncio.sleep may end [lo, hi]
  attempts,                \* history: start times of the websockets.connect() calls
  ncalls,                  \* history: API calls made so far
  nfailed,                 \* history: failed connection attempts so far
  ninbound,                \* history: inbound frames delivered so far
  wanted,                  \* history: streams subscribed and not unsubscribed since
  closeCalled,             \* history: close() has been called
  hpass,                   \* history: the handler's last resubscription pass
  hist,                    \* history: what the later properties speak about
  per_stream,              \* the per-stream client (app/binance_websocket_client.py)
  binance_client           \* the REST client (utils/binance_client.py)

vars == << ws, running, subscriptions, message_handler_task, ws_lock, recv_lock,
           message_queue, reconnect_delay, last_connection_attempt, stack, result,
           live, opened, outbound, hash_order, clockOn, now, cooling, wake,
           attempts, ncalls, nfailed, ninbound, wanted, closeCalled, hpass, hist,
           per_stream, binance_client >>

(* ------------------------- the machine record ------------------------- *)
\* The state as one record, so that the code between two awaits can be
\* written as a function from state to state.  rv is the value the last
\* await or call returned; it lives only inside Run.
Pack ==
  [ ws |-> ws, running |-> running, subscriptions |-> subscriptions,
    message_handler_task |-> message_handler_task, ws_lock |-> ws_lock,
    recv_lock |-> recv_lock, message_queue |-> message_queue,
    reconnect_delay |-> reconnect_delay,
    last_connection_attempt |-> last_connection_attempt, stack |-> stack,
    result |-> result, live |-> live, opened |-> opened, outbound |-> outbound,
    hash_order |-> hash_order, clockOn |-> clockOn, now |-> now,
    cooling |-> cooling, wake |-> wake, attempts |-> attempts, ncalls |-> ncalls,
    nfailed |-> nfailed, ninbound |-> ninbound, wanted |-> wanted,
    closeCalled |-> closeCalled, hpass |-> hpass, hist |-> hist,
    per_stream |-> per_stream, rv |-> NoValue ]

Install(m) ==
  /\ ws' = m.ws
  /\ running' = m.running
  /\ subscriptions' = m.subscriptions
  /\ message_handler_task' = m.message_handler_task
  /\ ws_lock' = m.ws_lock
  /\ recv_lock' = m.recv_lock
  /\ message_queue' = m.message_queue
  /\ reconnect_delay' = m.reconnect_delay
  /\ last_connection_attempt' = m.last_connection_attempt
  /\ stack' = m.stack
  /\ result' = m.result
  /\ live' = m.live
  /\ opened' = m.opened
  /\ outbound' = m.outbound
  /\ hash_order' = m.hash_order
  /\ clockOn' = m.clockOn
  /\ now' = m.now
  /\ cooling' = m.cooling
  /\ wake' = m.wake
  /\ attempts' = m.attempts
  /\ ncalls' = m.ncalls
  /\ nfailed' = m.nfailed
  /\ ninbound' = m.ninbound
  /\ wanted' = m.wanted
  /\ closeCalled' = m.closeCalled
  /\ hpass' = m.hpass
  /\ hist' = m.hist
  /\ per_stream' = m.per_stream
  /\ UNCHANGED binance_client

NoWake == [lo |-> 0, hi |-> 0]
\* What a finished API call leaves for the history: its function, argument
\* and return value, and for the claims about sequences of calls: whether it
\* began while not connected (disc), how many SUBSCRIBE frames it wrote (sent),
\* self.ws and the registry when it returned (sock, reg), the number of the
\* call (seq) and, for the second of two subscribe(S) calls that follow each
\* other in one connected session, the record of the first one (first).
NoFirst == [is |-> FALSE, sock |-> None, reg |-> {}, sent |-> 0]
NoResult ==
  [ fn |-> NoValue, stream |-> NoValue, val |-> NoValue, disc |-> FALSE, sent |-> 0,
    sock |-> None, reg |-> {}, seq |-> 0, first |-> NoFirst ]
NoPass == [sock |-> None, snap |-> {}, done |-> FALSE]
\* history: delays are the reconnect delays slept by the failed connect()
\* calls since the last successful one; policyAt is the time of the last
\* policy-violation close (-1: none), backoff the reconnect_delay at that
\* time, redial the time from that close to the handler's next connection
\* attempt (-1: none yet); closed says that a close() call has returned, later
\* which API functions were called after that; pass is the last finished
\* resubscribe_all pass: its snapshot, the streams it called subscribe for,
\* how many of these calls returned False, and what it returned; inbound are
\* the frames recv() has returned, in order; inserted are the streams of the
\* registry in the order in which subscribe() first added them (pass.inserted:
\* those of the snapshot of the pass, when it was taken); during.unsub and
\* during.sub are the streams S and T of the unsubscribe(S) and subscribe(T)
\* calls that were made and returned True while the pass now in progress was
\* running, the last such call of a stream counting (pass.unsub, pass.sub:
\* what they were when the pass returned, pass.reg: the registry then);
\* overlap: the last subscribe(stream) call (number b) that was made on a
\* connected client while another subscribe(stream) call (number a) had
\* not returned; twin: a handler task was created while the task created
\* before it had not ended
NoHist ==
  [ delays |-> << >>, policyAt |-> -1, backoff |-> 0, redial |-> -1,
    closed |-> FALSE, later |-> {},
    pass |-> [done |-> FALSE, snap |-> << >>, tried |-> << >>, failed |-> 0,
              ret |-> TRUE, inserted |-> << >>, unsub |-> {}, sub |-> {},
              reg |-> {}],
    twin |-> FALSE, inbound |-> << >>, inserted |-> << >>, during |-> [unsub |-> {}, sub |-> {}],
    overlap |-> [is |-> FALSE, stream |-> NoValue, a |-> 0, b |-> 0] ]

\* history of a pass with a clock: the batch of the last SUBSCRIBE frame it
\* wrote and the time of that write, and the shortest time from the write of
\* a batch to the write of the next batch seen so far (-1: none seen), after
\* a batch whose number is a multiple of global_pause_interval (minGlobal)
\* and after any other batch (minBatch)
NoPace == [batch |-> 0, at |-> 0, minBatch |-> -1, minGlobal |-> -1]

\* A coroutine frame: the function, where it is, and its locals.
Frame(fn, pc, stream) ==
  [ fn |-> fn, pc |-> pc, stream |-> stream,
    rest |-> << >>,      \* resubscribe_all: current_subscriptions
    ok |-> TRUE,         \* resubscribe_all: success
    n |-> 0,             \* resubscribe_all: batch_count; close: the task awaited
    i |-> 0,             \* resubscribe_all: i, the start of the batch
    j |-> 0,             \* resubscribe_all: position in the batch
    sock |-> None,       \* the socket object an awaited ws call was made on
    disc |-> FALSE,      \* history: the call started while not connected
    busy |-> FALSE,      \* history: connect() was called on an open or connecting client
    sent |-> 0,          \* history: SUBSCRIBE frames this call wrote
    seq |-> 0,           \* history: the number of the API call
    first |-> NoFirst,   \* history: the subscribe(S) call this one repeats
    tried |-> << >>,     \* history: resubscribe_all: the streams it called subscribe for
    nfail |-> 0,         \* history: resubscribe_all: subscribe calls that returned False
    inserted |-> << >>,  \* history: resubscribe_all: the snapshot in insertion order
    inpass |-> FALSE,    \* history: the call was made while a pass was in progress
    pace |-> NoPace ]    \* history: resubscribe_all: when its SUBSCRIBE frames were written

\* some task is in a resubscribe_all pass that has taken its snapshot (line 292)
PassRunning(m) ==
  \E u \in Tasks : \E k \in 1..Len(m.stack[u]) :
     /\ m.stack[u][k].fn = "resubscribe_all"
     /\ m.stack[u][k].pc \notin {"L286", "r287"}

Depth(m, t) == Len(m.stack[t])
Top(m, t) == m.stack[t][Len(m.stack[t])]
SetTop(m, t, f) == [m EXCEPT !.stack[t] = [@ EXCEPT ![Len(@)] = f]]
Goto(m, t, pc) == SetTop(m, t, [Top(m, t) EXCEPT !.pc = pc])
\* call a coroutine: the caller continues at `back` when it returns
Call(m, t, back, f) == [Goto(m, t, back) EXCEPT !.stack[t] = Append(@, f)]

\* return v from the top frame; a task's outermost frame ends the call (or
\* the handler task)
Return(m, t, v) ==
  LET f == Top(m, t)
      popped == [m EXCEPT !.stack[t] = SubSeq(@, 1, Len(@) - 1), !.rv = v]
  IN  IF Depth(m, t) > 1 THEN popped
      ELSE IF t = Handler
           THEN [popped EXCEPT !.message_handler_task.state = "done", !.rv = NoValue]
           ELSE [popped EXCEPT
                   !.hist.closed = @ \/ f.fn = "close",
                   !.hist.during =
                      IF f.fn \notin {"subscribe", "unsubscribe"} THEN @
                      ELSE IF f.inpass /\ PassRunning(m) /\ v
                      THEN IF f.fn = "subscribe"
                           THEN [unsub |-> @.unsub \ {f.stream}, sub |-> @.sub \cup {f.stream}]
                           ELSE [unsub |-> @.unsub \cup {f.stream}, sub |-> @.sub \ {f.stream}]
                      ELSE [unsub |-> @.unsub \ {f.stream}, sub |-> @.sub \ {f.stream}],
                   !.result[t] = [fn |-> f.fn, stream |-> f.stream, val |-> v,
                                  disc |-> f.disc, sent |-> f.sent, sock |-> m.ws,
                                  reg |-> m.subscriptions, seq |-> f.seq,
                                  first |-> f.first],
                   !.rv = NoValue]

\* await asyncio.sleep(d), d in lo..hi
Sleep(m, t, pc, lo, hi) ==
  [Goto(m, t, pc) EXCEPT
     !.wake[t] = IF m.clockOn THEN [lo |-> m.now + lo, hi |-> m.now + hi] ELSE NoWake]

\* the code of the with block runs without the lock
AcquireWsLockNot(m, t, got, wait) == Goto(m, t, got)

\* async with self.ws_lock: an asyncio.Lock that is free is taken without
\* suspending, otherwise the task waits at `wait`
AcquireWsLock(m, t, got, wait) ==
  IF m.ws_lock = Free THEN Goto([m EXCEPT !.ws_lock = t], t, got) ELSE Goto(m, t, wait)

ReleaseWsLock(m) == [m EXCEPT !.ws_lock = Free]

Min(a, b) == IF a < b THEN a ELSE b

\* list(a_set): the streams of S in the interpreter's iteration order
RECURSIVE ListOf(_, _)
ListOf(order, S) ==
  IF order = << >> THEN << >>
  ELSE IF Head(order) \in S THEN << Head(order) >> \o ListOf(Tail(order), S)
       ELSE ListOf(Tail(order), S)

Connected(m) == m.running /\ m.ws # None

\* connect(), line 55: current_time - self.last_connection_attempt < cooldown
CooldownActive(m) ==
  IF m.clockOn THEN m.now - m.last_connection_attempt < connection_cooldown
  ELSE m.cooling

\* the socket the client holds is never seen
HasSocketNever(m) == FALSE

\* line 63: self.ws is not None
HasSocket(m) == m.ws # None

\* the handler task is started whatever the state of the last one
NoHandlerTaskUnchecked(task) == TRUE

\* line 73: self.message_handler_task is None or self.message_handler_task.done()
NoHandlerTask(task) == task.state \in {"none", "done"}

(* ------------------------------ connect() ----------------------------- *)
ConnectStep(m, t) ==
  LET f == Top(m, t) IN
  CASE f.pc = "L54" ->
         IF CooldownActive(m)
         THEN Sleep(m, t, "w57", connection_cooldown, connection_cooldown)
         ELSE Goto(m, t, "L59")
    [] f.pc = "r57" -> Goto(m, t, "L59")
    [] f.pc = "L59" ->
         \* history (attempts): the time of every connection attempt, as line 59
         \* records it
         AcquireWsLock([m EXCEPT !.last_connection_attempt = m.now, !.cooling = TRUE,
                                 !.attempts = IF m.clockOn THEN Append(@, m.now) ELSE @,
                                 !.hist.redial =
                                    IF t = Handler /\ m.hist.policyAt >= 0 /\ m.hist.redial < 0
                                    THEN m.now - m.hist.policyAt ELSE @],
                       t, "L63", "w62")
    [] f.pc = "r62" -> AcquireWsLock(m, t, "L63", "w62")
    [] f.pc = "L63" ->
         IF HasSocket(m)
         THEN SetTop(m, t, [f EXCEPT !.pc = "w65", !.sock = m.ws])
         ELSE Goto(m, t, "L70")
    [] f.pc = "r65" ->
         \* lines 66-67: an exception of ws.close() is logged, nothing else
         Goto([m EXCEPT !.live = IF m.rv = "raised" THEN @ ELSE @ \ {f.sock}], t, "L70")
    [] f.pc = "L70" -> Goto(m, t, "w70")
    [] f.pc = "r70" ->
         IF m.rv
         THEN LET new == m.opened + 1
                  start == NoHandlerTask(m.message_handler_task)
                  m1 == [m EXCEPT !.ws = new, !.opened = new, !.live = @ \cup {new},
                                  !.running = TRUE, !.ws_lock = Free,
                                  !.hist.delays = << >>]
                  m2 == IF start
                        THEN [m1 EXCEPT
                                !.hist.twin = @ \/ m.stack[Handler] # << >>,
                                !.message_handler_task =
                                   [gen |-> new, state |-> "alive", failed |-> FALSE],
                                !.stack[Handler] =
                                   << Frame("message_handler", "start", NoValue) >>]
                        ELSE m1
              IN  Return(m2, t, TRUE)
         ELSE Sleep([m EXCEPT !.ws_lock = Free, !.running = FALSE,
                              !.nfailed = @ + 1,
                              !.hist.delays = Append(@, m.reconnect_delay)],
                    t, "w84", m.reconnect_delay, m.reconnect_delay)
    [] f.pc = "r84" ->
         Return([m EXCEPT !.reconnect_delay = Min(@ * 2, max_reconnect_delay)], t, FALSE)

(* ----------------------- _is_connection_active() ---------------------- *)
IsConnectionActiveStep(m, t) ==
  LET f == Top(m, t) IN
  CASE f.pc = "L96" -> IF m.ws = None THEN Return(m, t, FALSE) ELSE Goto(m, t, "L101")
    [] f.pc \in {"L101", "r101"} -> AcquireWsLock(m, t, "L102", "w101")
    [] f.pc = "L102" ->
         \* self.ws.ping() on None raises, which line 105 turns into False
         IF m.ws = None THEN Return(ReleaseWsLock(m), t, FALSE)
         ELSE SetTop(m, t, [f EXCEPT !.pc = "w102", !.sock = m.ws])
    [] f.pc = "r102" -> Return(ReleaseWsLock(m), t, m.rv)

(* ------------------------------ inbound frames ------------------------ *)
\* What a decoded frame says: a kline event of a stream (the candle that
\* opened at openTime, with its price so far), or the reply to the request
\* with that id.  The id of a request is int(time.time() * 1000) in the code
\* (line 222); here it is the position of the request in outbound.
Kline(stream, openTime, price) ==
  [e |-> "kline", stream |-> stream, openTime |-> openTime, price |-> price, id |-> 0]
Reply(id) ==
  [e |-> "result", stream |-> NoValue, openTime |-> 0, price |-> 0, id |-> id]
NoData == [e |-> NoValue, stream |-> NoValue, openTime |-> 0, price |-> 0, id |-> 0]

\* What recv() hands over: the text of a frame, which is JSON saying `body`
\* or is not JSON at all.  NoMessage is the None of _safe_recv.
Text(body) == [got |-> TRUE, wellformed |-> TRUE, body |-> body]
Garbage == [got |-> TRUE, wellformed |-> FALSE, body |-> NoData]
NoMessage == [got |-> FALSE, wellformed |-> FALSE, body |-> NoData]

JsonLoadsAnything(message) == [ok |-> TRUE, data |-> message.body]

\* json.loads(message), line 156: the data, or JSONDecodeError
JsonLoads(message) ==
  IF message.wellformed THEN [ok |-> TRUE, data |-> message.body]
  ELSE [ok |-> FALSE, data |-> NoData]

(* ----------------------------- _safe_recv() --------------------------- *)
SafeRecvStep(m, t) ==
  LET f == Top(m, t) IN
  CASE f.pc = "L118" -> IF m.ws = None THEN Return(m, t, NoMessage) ELSE Goto(m, t, "L122")
    [] f.pc \in {"L122", "r122"} ->
         IF m.recv_lock = Free
         THEN SetTop([m EXCEPT !.recv_lock = t], t, [f EXCEPT !.pc = "w123", !.sock = m.ws])
         ELSE Goto(m, t, "w122")
    [] f.pc = "r123" -> Return([m EXCEPT !.recv_lock = Free], t, m.rv)

(* --------------------------- process_message() ------------------------ *)
ProcessMessage(m, data) == [m EXCEPT !.message_queue = Append(@, data)]

(* --------------------------- message_handler() ------------------------ *)
\* Lines 141-161.  Nothing awaited inside the try block lets an exception
\* out: _is_connection_active, _safe_recv, connect, resubscribe_all and the
\* inner try of lines 155-161 catch every Exception themselves (a
\* ConnectionClosedError of recv() is caught at line 127), so the handlers of
\* lines 162-182, the policy pause of lines 164-169 among them, have no way in.
MessageHandlerStep(m, t) ==
  LET f == Top(m, t) IN
  CASE f.pc \in {"rstart", "L140"} ->
         IF m.running
         THEN Call(m, t, "r143", Frame("_is_connection_active", "L96", NoValue))
         ELSE Return(m, t, NoValue)
    [] f.pc = "r143" ->
         IF m.rv
         THEN Call(m, t, "r150", Frame("_safe_recv", "L118", NoValue))
         ELSE Call(m, t, "r145", Frame("connect", "L54", NoValue))
    [] f.pc = "r145" ->
         \* history (failed): the handler's last connect() returned False
         IF m.rv
         THEN Call([m EXCEPT !.message_handler_task.failed = FALSE], t, "r146",
                   Frame("resubscribe_all", "L286", NoValue))
         ELSE Goto([m EXCEPT !.message_handler_task.failed = TRUE], t, "L140")
    [] f.pc = "r146" -> Goto(m, t, "L140")
    [] f.pc = "r150" ->
         IF ~m.rv.got THEN Goto(m, t, "L140")                    \* message is None
         ELSE IF ~JsonLoads(m.rv).ok THEN Goto(m, t, "L140")     \* json.JSONDecodeError
         ELSE Goto(ProcessMessage(m, JsonLoads(m.rv).data), t, "L140")

(* -------------------------------- close() ----------------------------- *)
CloseStep(m, t) ==
  LET f == Top(m, t)
      m0 == [m EXCEPT !.running = FALSE, !.closeCalled = TRUE]
  IN
  CASE f.pc = "L331" ->
         IF m.message_handler_task.state \in {"alive", "cancel"}
         THEN SetTop([m0 EXCEPT !.message_handler_task.state = "cancel"], t,
                     [f EXCEPT !.pc = "w337", !.n = m.message_handler_task.gen])
         ELSE Goto(m0, t, "L342")
    [] f.pc = "r337" -> Goto(m, t, "L342")
    [] f.pc \in {"L342", "r342"} -> AcquireWsLock(m, t, "L343", "w342")
    [] f.pc = "L343" ->
         IF m.ws # None
         THEN SetTop(m, t, [f EXCEPT !.pc = "w345", !.sock = m.ws])
         ELSE Return(ReleaseWsLock(m), t, NoValue)
    [] f.pc = "r345" ->
         \* lines 346-349: whether ws.close() returned or raised, finally: ws = None
         Return(ReleaseWsLock([m EXCEPT
                                 !.live = IF m.rv = "raised" THEN @ ELSE @ \ {f.sock},
                                 !.ws = None]), t, NoValue)

(* ------------------------------ subscribe() --------------------------- *)
SubscribeFrame(stream) == [fn |-> "SUBSCRIBE", stream |-> stream]
UnsubscribeFrame(stream) == [fn |-> "UNSUBSCRIBE", stream |-> stream]
\* what the transport records of a frame written on socket s
Written(s, frame) == [sock |-> s, method |-> frame.fn, stream |-> frame.stream]

\* subscribe(), line 212: if stream in self.subscriptions
NeverSubscribed(m, stream) == FALSE

\* line 212: if stream in self.subscriptions
AlreadySubscribed(m, stream) == stream \in m.subscriptions

\* history: the subscribe() call of task t, made by a resubscribe_all pass,
\* has written its frame now
Paced(m, t) ==
  LET d == Depth(m, t) IN
  IF ~m.clockOn \/ d < 2 THEN m
  ELSE IF m.stack[t][d - 1].fn # "resubscribe_all" THEN m
  ELSE LET pf == m.stack[t][d - 1]
           b == pf.n + 1
           prev == pf.pace
           gap == m.now - prev.at
           next == prev.batch >= 1 /\ prev.batch = b - 1
           global == prev.batch % global_pause_interval = 0
           least(x) == IF x = -1 THEN gap ELSE Min(x, gap)
       IN  [m EXCEPT !.stack[t][d - 1].pace =
              [batch |-> b, at |-> m.now,
               minBatch |-> IF next /\ ~global THEN least(prev.minBatch) ELSE prev.minBatch,
               minGlobal |-> IF next /\ global THEN least(prev.minGlobal) ELSE prev.minGlobal]]

SubscribeStep(m, t) ==
  LET f == Top(m, t) IN
  CASE f.pc = "L206" ->
         IF ~m.running \/ m.ws = None
         THEN Call(SetTop(m, t, [f EXCEPT !.disc = TRUE]), t, "r207",
                   Frame("connect", "L54", NoValue))
         ELSE Goto(m, t, "L212")
    [] f.pc = "r207" -> IF m.rv THEN Goto(m, t, "L212") ELSE Return(m, t, FALSE)
    [] f.pc = "L212" ->
         IF AlreadySubscribed(m, f.stream) THEN Return(m, t, TRUE)
         ELSE Sleep(m, t, "w216", 2, 5)               \* random.uniform(2.0, 5.0)
    [] f.pc \in {"r216", "r226"} -> AcquireWsLock(m, t, "L227", "w226")
    [] f.pc = "L227" ->
         \* self.ws.send on None raises, which line 237 turns into False
         IF m.ws = None THEN Return(ReleaseWsLock(m), t, FALSE)
         ELSE SetTop(m, t, [f EXCEPT !.pc = "w227", !.sock = m.ws])
    [] f.pc = "r227" ->
         IF m.rv
         THEN Return([SetTop(Paced(m, t), t, [f EXCEPT !.sent = @ + 1]) EXCEPT
                               !.outbound = Append(@, Written(f.sock, SubscribeFrame(f.stream))),
                               !.ws_lock = Free,
                               !.subscriptions = @ \cup {f.stream},
                               !.wanted = @ \cup {f.stream},
                               !.hist.inserted = IF \E k \in 1..Len(@) : @[k] = f.stream
                                                 THEN @ ELSE Append(@, f.stream),
                               !.reconnect_delay = initial_reconnect_delay],
                     t, TRUE)
         ELSE Return(ReleaseWsLock(m), t, FALSE)

(* ----------------------------- unsubscribe() -------------------------- *)
UnsubscribeStep(m, t) ==
  LET f == Top(m, t) IN
  CASE f.pc = "L251" ->
         IF ~m.running \/ m.ws = None THEN Return(m, t, FALSE)
         ELSE IF f.stream \notin m.subscriptions THEN Return(m, t, TRUE)
         ELSE AcquireWsLock(m, t, "L268", "w267")
    [] f.pc = "r267" -> AcquireWsLock(m, t, "L268", "w267")
    [] f.pc = "L268" ->
         IF m.ws = None THEN Return(ReleaseWsLock(m), t, FALSE)
         ELSE SetTop(m, t, [f EXCEPT !.pc = "w268", !.sock = m.ws])
    [] f.pc = "r268" ->
         IF m.rv
         THEN LET m1 == [m EXCEPT !.outbound =
                                     Append(@, Written(f.sock, UnsubscribeFrame(f.stream))),
                                  !.ws_lock = Free]
              IN  \* set.remove of a stream that is gone raises KeyError -> False
                  IF f.stream \in m.subscriptions
                  THEN Return([m1 EXCEPT !.subscriptions = @ \ {f.stream},
                                         !.wanted = @ \ {f.stream},
                                         !.hist.inserted =
                                            SelectSeq(@, LAMBDA x : x # f.stream)],
                              t, TRUE)
                  ELSE Return(m1, t, FALSE)
         ELSE Return(ReleaseWsLock(m), t, FALSE)

(* --------------------------- resubscribe_all() ------------------------ *)
BatchSkipsFirst(rest, i) ==
  SubSeq(rest, i + 2, Min(i + subscription_batch_size, Len(rest)))

PassResultKept(success, subscribed) == success

\* lines 305-306: if not await self.subscribe(stream): success = False
PassResult(success, subscribed) == success /\ subscribed

\* the pause after every batch, which always is the short one
PauseAlwaysShort(batch_count) == subscription_batch_delay

\* lines 315-320: the pause after the batch that made batch_count batches
PauseAfter(batch_count) ==
  IF batch_count % global_pause_interval = 0
  THEN global_pause_duration
  ELSE subscription_batch_delay

\* current_subscriptions[i:i+subscription_batch_size]
Batch(rest, i) == SubSeq(rest, i + 1, Min(i + subscription_batch_size, Len(rest)))

ResubscribeAllStep(m, t) ==
  LET f == Top(m, t) IN
  CASE f.pc = "L286" ->
         IF ~m.running \/ m.ws = None
         THEN Call(m, t, "r287", Frame("connect", "L54", NoValue))
         ELSE Goto(m, t, "L292")
    [] f.pc = "r287" -> IF m.rv THEN Goto(m, t, "L292") ELSE Return(m, t, FALSE)
    [] f.pc = "L292" ->
         SetTop([m EXCEPT !.subscriptions = {},
                          !.hpass = IF t = Handler
                                    THEN [sock |-> m.ws, snap |-> m.subscriptions,
                                          done |-> FALSE]
                                    ELSE @],
                t,
                [f EXCEPT !.pc = "L300", !.rest = ListOf(m.hash_order, m.subscriptions),
                          !.ok = TRUE, !.n = 0, !.i = 0, !.tried = << >>, !.nfail = 0,
                          !.inserted = SelectSeq(m.hist.inserted,
                                                 LAMBDA x : x \in m.subscriptions)])
    [] f.pc = "L300" ->
         IF f.i >= Len(f.rest)
         THEN Return([m EXCEPT !.hpass.done = IF t = Handler THEN TRUE ELSE @,
                               !.hist.pass = [done |-> TRUE, snap |-> f.rest,
                                              tried |-> f.tried, failed |-> f.nfail,
                                              ret |-> f.ok, inserted |-> f.inserted,
                                              unsub |-> m.hist.during.unsub,
                                              sub |-> m.hist.during.sub,
                                              reg |-> m.subscriptions],
                               !.hist.during = [unsub |-> {}, sub |-> {}]],
                     t, f.ok)
         ELSE SetTop(m, t, [f EXCEPT !.pc = "L304", !.j = 0])
    [] f.pc = "L304" ->
         IF f.j >= Len(Batch(f.rest, f.i)) THEN Goto(m, t, "L312")
         ELSE Call(SetTop(m, t, [f EXCEPT !.tried = Append(@, Batch(f.rest, f.i)[f.j + 1])]),
                   t, "r305", Frame("subscribe", "L206", Batch(f.rest, f.i)[f.j + 1]))
    [] f.pc = "r305" ->
         \* asyncio.sleep(1 / self.subscription_rate_limit): half a second
         Sleep(SetTop(m, t, [f EXCEPT !.ok = PassResult(f.ok, m.rv),
                                      !.nfail = IF m.rv THEN @ ELSE @ + 1]),
               t, "w309", 0, 1)
    [] f.pc = "r309" -> SetTop(m, t, [f EXCEPT !.pc = "L304", !.j = f.j + 1])
    [] f.pc = "L312" ->
         LET g == [f EXCEPT !.n = f.n + 1] IN
         IF g.n % global_pause_interval = 0
         THEN Sleep(SetTop(m, t, g), t, "w317", PauseAfter(g.n), PauseAfter(g.n))
         ELSE Sleep(SetTop(m, t, g), t, "w320", PauseAfter(g.n), PauseAfter(g.n))
    [] f.pc \in {"r317", "r320"} ->
         SetTop(m, t, [f EXCEPT !.pc = "L300", !.i = f.i + subscription_batch_size])

(* --------------------------- the event loop --------------------------- *)
SleepPcs == {"w57", "w84", "w216", "w309", "w317", "w320"}
WsLockPcs == {"w62", "w101", "w226", "w267", "w342"}
RecvLockPcs == {"w122"}
ClosePcs == {"w65", "w345"}
SendPcs == {"w227", "w268"}
WaitPcs == SleepPcs \cup WsLockPcs \cup RecvLockPcs \cup ClosePcs \cup SendPcs
             \cup {"start", "w70", "w102", "w123", "w337"}

\* the label a task continues at when the await at label w returns
After == [w \in WaitPcs |->
  CASE w = "start" -> "rstart" [] w = "w57" -> "r57" [] w = "w62" -> "r62"
    [] w = "w65" -> "r65" [] w = "w70" -> "r70" [] w = "w84" -> "r84"
    [] w = "w101" -> "r101" [] w = "w102" -> "r102" [] w = "w122" -> "r122"
    [] w = "w123" -> "r123" [] w = "w216" -> "r216" [] w = "w226" -> "r226"
    [] w = "w227" -> "r227" [] w = "w267" -> "r267" [] w = "w268" -> "r268"
    [] w = "w309" -> "r309" [] w = "w317" -> "r317" [] w = "w320" -> "r320"
    [] w = "w337" -> "r337" [] w = "w342" -> "r342" [] w = "w345" -> "r345"]

Suspended(m, t) == m.stack[t] = << >> \/ Top(m, t).pc \in WaitPcs

\* one statement group of the coroutine on top of t's stack
StepOf(m, t) ==
  LET fn == Top(m, t).fn IN
  CASE fn = "connect" -> ConnectStep(m, t)
    [] fn = "_is_connection_active" -> IsConnectionActiveStep(m, t)
    [] fn = "_safe_recv" -> SafeRecvStep(m, t)
    [] fn = "message_handler" -> MessageHandlerStep(m, t)
    [] fn = "subscribe" -> SubscribeStep(m, t)
    [] fn = "unsubscribe" -> UnsubscribeStep(m, t)
    [] fn = "resubscribe_all" -> ResubscribeAllStep(m, t)
    [] fn = "close" -> CloseStep(m, t)

\* task t runs until it suspends or ends
RECURSIVE Run(_, _)
Run(m, t) == IF Suspended(m, t) THEN m ELSE Run(StepOf(m, t), t)

\* the await t is suspended on returns v
Deliver(m, t, v) == [Goto(m, t, After[Top(m, t).pc]) EXCEPT !.rv = v, !.wake[t] = NoWake]

Resume(t, v) == Install(Run(Deliver(Pack, t, v), t))

\* t is suspended at one of the labels pcs and the event loop may run it: a
\* task whose cancellation is pending gets the CancelledError, nothing else
At(t, pcs) ==
  /\ stack[t] # << >>
  /\ stack[t][Len(stack[t])].pc \in pcs
  /\ t = Handler => message_handler_task.state = "alive"

TopFrame(t) == stack[t][Len(stack[t])]

(* ------------------------------- actions ------------------------------ *)
\* a caller that is in no call makes the API call fn(stream)
InConnect(t) == \E k \in 1..Len(stack[t]) : stack[t][k].fn = "connect"

\* history: this subscribe(stream) follows a subscribe(stream) of the same
\* caller, the socket is the one that call left and is open, and the registry
\* is as that call left it
Repeats(t, fn, stream) ==
  /\ fn = "subscribe"
  /\ result[t].fn = "subscribe"
  /\ result[t].stream = stream
  /\ running /\ ws # None /\ ws \in live
  /\ result[t].sock = ws
  /\ result[t].reg = subscriptions

\* history: a subscribe(stream) call of another task that has not returned
Overlaps(t, fn, stream) ==
  {u \in Callers \ {t} : /\ fn = "subscribe"
                         /\ stack[u] # << >>
                         /\ stack[u][1].fn = "subscribe"
                         /\ stack[u][1].stream = stream
                         /\ running /\ ws # None /\ ws \in live}

Invoke(t, fn, entry, stream) ==
  /\ stack[t] = << >>
  /\ ncalls < MaxCalls
  /\ LET f == [Frame(fn, entry, stream) EXCEPT
                 !.seq = ncalls + 1,
                 !.inpass = PassRunning(Pack),
                 !.busy = /\ fn = "connect"
                          /\ \/ ws \in live
                             \/ \E u \in Tasks \ {t} : InConnect(u),
                 !.first = IF Repeats(t, fn, stream)
                           THEN [is |-> TRUE, sock |-> result[t].sock,
                                 reg |-> result[t].reg, sent |-> result[t].sent]
                           ELSE NoFirst]
     IN  Install(Run([Pack EXCEPT !.stack[t] = << f >>,
                                  !.result[t] = NoResult,
                                  !.ncalls = @ + 1,
                                  !.hist.overlap =
                                     IF Overlaps(t, fn, stream) # {}
                                     THEN [is |-> TRUE, stream |-> stream,
                                           a |-> stack[CHOOSE u \in Overlaps(t, fn, stream) : TRUE][1].seq,
                                           b |-> ncalls + 1]
                                     ELSE @,
                                  !.hist.during.unsub =
                                     IF fn = "subscribe" THEN @ \ {stream} ELSE @,
                                  !.hist.later = IF hist.closed THEN @ \cup {fn} ELSE @],
                     t))

CallConnect(t) == Invoke(t, "connect", "L54", NoValue)
CallSubscribe(t, s) == Invoke(t, "subscribe", "L206", s)
CallUnsubscribe(t, s) == Invoke(t, "unsubscribe", "L251", s)
CallResubscribeAll(t) == Invoke(t, "resubscribe_all", "L286", NoValue)
CallClose(t) == Invoke(t, "close", "L331", NoValue)

\* the task created by asyncio.create_task(self.message_handler()) gets its first turn
HandlerStarts == At(Handler, {"start"}) /\ Resume(Handler, NoValue)

\* an asyncio.sleep ends
TimerFires(t) ==
  /\ At(t, SleepPcs)
  /\ clockOn => now >= wake[t].lo
  /\ Resume(t, NoValue)

\* a task waiting for a lock finds it free
LockGranted(t) ==
  /\ \/ At(t, WsLockPcs) /\ ws_lock = Free
     \/ At(t, RecvLockPcs) /\ recv_lock = Free
  /\ Resume(t, NoValue)

\* await self.ws.close() returns (an exception it raises is swallowed)
SocketClosed(t) == At(t, ClosePcs) /\ Resume(t, NoValue)

\* await self.ws.close() raises: the socket is left as it was
SocketCloseRaises(t) == At(t, ClosePcs) /\ Resume(t, "raised")

\* await self.ws.close() raises on a connection that is already broken
SocketCloseFails(t) ==
  At(t, ClosePcs) /\ TopFrame(t).sock \notin live /\ Resume(t, "raised")

\* await websockets.connect(self.ws_url) returns a socket
ConnectSucceeds(t) == At(t, {"w70"}) /\ opened < MaxSockets /\ Resume(t, TRUE)

\* await websockets.connect(self.ws_url) raises
ConnectFails(t) == At(t, {"w70"}) /\ nfailed < MaxFailures /\ Resume(t, FALSE)

\* ping and pong on the socket: answered iff the socket is still open
PingDone(t) == At(t, {"w102"}) /\ Resume(t, TopFrame(t).sock \in live)

\* await self.ws.send(...) returns, or raises when the socket is closed
SendDone(t) == At(t, SendPcs) /\ Resume(t, TopFrame(t).sock \in live)

\* wait_for(self.ws.recv(), timeout) times out, or recv raises on a closed
\* socket: _safe_recv returns None either way
RecvNothing(t) == At(t, {"w123"}) /\ Resume(t, NoMessage)

\* the frames the peer may send on socket s: text that is not JSON, a kline
\* event of a stream subscribed on s, the reply to a request written on s
InboundFrames(s) ==
  {Garbage}
    \cup {Text(Kline(outbound[k].stream, 1, price)) :
            k \in {i \in 1..Len(outbound) : outbound[i].sock = s
                                             /\ outbound[i].method = "SUBSCRIBE"},
            price \in 1..MaxPrice}
    \cup {Text(Reply(k)) : k \in {i \in 1..Len(outbound) : outbound[i].sock = s}}

\* a frame arrives on the open socket and recv() returns it
RecvFrame(t) ==
  /\ At(t, {"w123"})
  /\ TopFrame(t).sock \in live
  /\ ninbound < MaxFrames
  /\ \E message \in InboundFrames(TopFrame(t).sock) :
       Install(Run(Deliver([Pack EXCEPT !.ninbound = @ + 1,
                                        !.hist.inbound = Append(@, message)],
                           t, message), t))

\* close(), line 337: the cancelled handler task has ended
HandlerAwaited(t) ==
  /\ At(t, {"w337"})
  /\ \/ message_handler_task.gen # TopFrame(t).n
     \/ message_handler_task.state = "done"
  /\ Resume(t, NoValue)

\* the handler task gets the CancelledError of task.cancel(): every frame
\* unwinds, "async with" releases the locks it holds, the task is done
HandlerCancelled ==
  /\ message_handler_task.state = "cancel"
  /\ message_handler_task' = [message_handler_task EXCEPT !.state = "done"]
  /\ stack' = [stack EXCEPT ![Handler] = << >>]
  /\ ws_lock' = IF ws_lock = Handler THEN Free ELSE ws_lock
  /\ recv_lock' = IF recv_lock = Handler THEN Free ELSE recv_lock
  /\ wake' = [wake EXCEPT ![Handler] = NoWake]
  /\ UNCHANGED << ws, running, subscriptions, message_queue, reconnect_delay,
                  last_connection_attempt, result, live, opened, outbound,
                  hash_order, clockOn, now, cooling, attempts, ncalls, nfailed,
                  ninbound, wanted, closeCalled, hpass, hist, per_stream,
                  binance_client >>

\* the peer or the network ends a connection
PeerDrop(s) ==
  /\ s \in live
  /\ live' = live \ {s}
  /\ UNCHANGED << ws, running, subscriptions, message_handler_task, ws_lock,
                  recv_lock, message_queue, reconnect_delay,
                  last_connection_attempt, stack, result, opened, outbound,
                  hash_order, clockOn, now, cooling, wake, attempts, ncalls,
                  nfailed, ninbound, wanted, closeCalled, hpass, hist, per_stream,
                  binance_client >>

\* without a clock: connection_cooldown seconds have passed since the last attempt
CooldownExpires ==
  /\ ~clockOn
  /\ cooling
  /\ cooling' = FALSE
  /\ UNCHANGED << ws, running, subscriptions, message_handler_task, ws_lock,
                  recv_lock, message_queue, reconnect_delay,
                  last_connection_attempt, stack, result, live, opened, outbound,
                  hash_order, clockOn, now, wake, attempts, ncalls, nfailed,
                  ninbound, wanted, closeCalled, hpass, hist, per_stream,
                  binance_client >>

(* ------------------------ the per-stream client ------------------------ *)
\* src/app/binance_websocket_client.py: one socket and one handler task per
\* stream, no locks.  The whole client, its tasks and its transport are the
\* record per_stream:
\*   running, ws_connections, message_handlers, subscriptions,
\*   reconnect_delay     the fields of the object (a stream that is no key of
\*                       ws_connections maps to None, message_handlers says
\*                       which streams are keys of that dict)
\*   order               the keys of the two dicts in insertion order (both
\*                       dicts gain a stream in the same connect_to_stream
\*                       and are cleared together)
\*   cooling             clock abstracted away: less than connection_cooldown
\*                       has passed since last_connection_attempt
\*   task                per stream: the state of its handler task
\*   stack               per task: the frames of the coroutines it is in
\*   sock, made, failed  transport: the state of each socket, the sockets
\*                       opened and the connection attempts failed so far
\*   calls, rv, closed   API calls made, the value the last await or call
\*                       returned, and what the last close() left behind
\*   woke                history: the last await that ended, of which task,
\*                       at which line, with what
\*   dropped             history: the sockets that the peer closed
StreamCaller == "c1"
StreamTasks == {StreamCaller} \cup Streams

NoStreamClose == [done |-> FALSE, running |-> FALSE, held |-> {}, tasks |-> {},
                  open |-> {}, raised |-> FALSE]

\* __init__, lines 40-54
StreamClient ==
  [ running |-> FALSE,
    ws_connections |-> [s \in Streams |-> None],
    message_handlers |-> [s \in Streams |-> FALSE],
    subscriptions |-> {},
    reconnect_delay |-> initial_reconnect_delay,
    order |-> << >>,
    cooling |-> FALSE,
    task |-> [s \in Streams |-> "none"],
    stack |-> [t \in StreamTasks |-> << >>],
    sock |-> [k \in 1..MaxStreamSockets |-> "unborn"],
    made |-> 0,
    failed |-> 0,
    calls |-> 0,
    rv |-> "None",
    closed |-> NoStreamClose,
    woke |-> [task |-> NoValue, pc |-> NoValue, rv |-> NoValue],
    dropped |-> {} ]

StreamFrame(fn, pc, stream) ==
  [fn |-> fn, pc |-> pc, stream |-> stream, ws |-> None, todo |-> << >>,
   raised |-> FALSE]

StreamTop(p, t) == p.stack[t][Len(p.stack[t])]
StreamSetTop(p, t, f) == [p EXCEPT !.stack[t][Len(p.stack[t])] = f]
StreamGoto(p, t, pc) == [p EXCEPT !.stack[t][Len(p.stack[t])].pc = pc]
StreamCallFn(p, t, back, f) ==
  [p EXCEPT !.stack[t] = Append([@ EXCEPT ![Len(@)].pc = back], f)]

\* sockets that are open, handler tasks that have not finished
StreamOpen(p) == {k \in 1..MaxStreamSockets : p.sock[k] = "open"}
StreamUnfinished(p) == {s \in Streams : p.task[s] \in {"alive", "cancel"}}

\* return v from the top frame; the last frame of a handler ends its task,
\* the last frame of close() leaves the record of the state it returned in
StreamReturn(p, t, v) ==
  LET f == StreamTop(p, t)
      n == Len(p.stack[t])
  IN  IF n > 1
      THEN [p EXCEPT !.stack[t] = SubSeq(@, 1, n - 1), !.rv = v]
      ELSE [p EXCEPT
              !.stack[t] = << >>,
              !.rv = v,
              !.task = IF t \in Streams THEN [@ EXCEPT ![t] = "done"] ELSE @,
              !.closed = IF f.fn = "close"
                         THEN [done |-> TRUE, running |-> p.running,
                               held |-> {s \in Streams : p.ws_connections[s] # None},
                               tasks |-> StreamUnfinished(p),
                               open |-> StreamOpen(p),
                               raised |-> f.raised]
                         ELSE @]

\* connect_to_stream, lines 56-123.  Every statement that can raise sits in
\* one of the two inner try blocks, so the outer handler (lines 113-123, the
\* only place this function sleeps reconnect_delay) is never entered.
\* Whether awaiting close() of a socket that is closed already yields to the
\* event loop depends on the library; here, as at line 355, it may.
ConnectToStreamStep(p, t) ==
  LET f == StreamTop(p, t)
      s == f.stream
  IN  CASE f.pc = "L70" ->
             IF p.cooling THEN StreamGoto(p, t, "w72") ELSE StreamGoto(p, t, "L74")
        [] f.pc = "r72" -> StreamGoto(p, t, "L74")
        [] f.pc = "L74" ->
             LET q == [p EXCEPT !.cooling = TRUE]
             IN  IF q.ws_connections[s] # None
                 THEN StreamSetTop(q, t, [f EXCEPT !.pc = "w86",
                                                   !.ws = q.ws_connections[s]])
                 ELSE StreamGoto(q, t, "w94")
        [] f.pc = "r86" -> StreamGoto(p, t, "w94")
        [] f.pc = "r94" ->
             IF p.rv = "raised"
             THEN StreamReturn(p, t, "False")
             ELSE LET fresh == ~p.message_handlers[s] \/ p.task[s] = "done"
                      q == [p EXCEPT
                              !.ws_connections[s] = p.made,
                              !.order = IF p.ws_connections[s] = None /\ ~p.message_handlers[s]
                                        THEN Append(@, s) ELSE @,
                              !.message_handlers[s] = TRUE,
                              !.task[s] = IF fresh THEN "alive" ELSE @,
                              !.stack[s] = IF fresh
                                           THEN << StreamFrame("stream_message_handler", "w125", s) >>
                                           ELSE @,
                              !.subscriptions = @ \cup {s},
                              !.running = TRUE]
                  IN  StreamReturn(q, t, "True")

\* a ping whose failure goes unnoticed
PingFailureIgnored(rv) == FALSE

\* lines 166-170: ws.ping() or the wait for the pong raised
PingFailed(rv) == rv = "raised"

\* stream_message_handler, lines 125-198, run by the task of stream t.  The
\* values of ws_connections are sockets, so ws is not None at line 138; a
\* frame is decoded and handed to process_message (lines 200-222), which logs
\* it and keeps nothing.
StreamMessageHandlerStep(p, t) ==
  LET f == StreamTop(p, t)
      s == f.stream
      reconnect(back) == StreamCallFn(p, t, back, StreamFrame("connect_to_stream", "L70", s))
  IN  CASE f.pc = "L134" ->
             IF p.running /\ p.ws_connections[s] # None
             THEN StreamSetTop(p, t, [f EXCEPT !.pc = "w150", !.ws = p.ws_connections[s]])
             ELSE StreamReturn(p, t, "None")
        [] f.pc = "r150" ->
             CASE p.rv = "frame" -> StreamGoto(p, t, "L134")
               [] p.rv = "timeout" -> StreamGoto(p, t, "w167")
               [] p.rv = "closed_err" -> reconnect("r182")
               [] OTHER -> StreamGoto(p, t, "w191")
        [] f.pc = "r167" ->
             IF PingFailed(p.rv) THEN reconnect("r172") ELSE StreamGoto(p, t, "w168")
        [] f.pc = "r168" ->
             IF PingFailed(p.rv) THEN reconnect("r172") ELSE StreamGoto(p, t, "L134")
        [] f.pc = "r172" -> StreamGoto(p, t, "L134")
        [] f.pc = "r182" ->
             IF p.rv = "True" THEN StreamGoto(p, t, "L134") ELSE StreamGoto(p, t, "w186")
        [] f.pc = "r186" ->
             StreamGoto([p EXCEPT !.reconnect_delay = Min(@ * 2, max_reconnect_delay)],
                        t, "L134")
        [] f.pc = "r191" -> StreamGoto(p, t, "L134")

\* the (stream, value) pairs of a dict of the client, in insertion order
RECURSIVE StreamItems(_, _)
StreamItems(p, order) ==
  IF order = << >> THEN << >>
  ELSE << [stream |-> Head(order), ws |-> p.ws_connections[Head(order)]] >>
       \o StreamItems(p, Tail(order))

\* close, lines 341-382
StreamCloseStep(p, t) ==
  LET f == StreamTop(p, t)
  IN  CASE f.pc = "L346" ->
             StreamSetTop([p EXCEPT !.running = FALSE], t,
                          [f EXCEPT !.pc = "L351", !.todo = StreamItems(p, p.order)])
        [] f.pc = "L351" ->
             IF f.todo = << >>
             THEN StreamSetTop(p, t, [f EXCEPT !.pc = "L362",
                                               !.todo = StreamItems(p, p.order)])
             ELSE StreamSetTop(p, t, [f EXCEPT !.pc = "w355", !.ws = Head(f.todo).ws])
        [] f.pc = "r355" ->
             StreamSetTop(p, t, [f EXCEPT !.pc = "L351", !.todo = Tail(@),
                                          !.raised = @ \/ p.rv = "raised"])
        [] f.pc = "L362" ->
             IF f.todo = << >> THEN StreamGoto(p, t, "L375")
             ELSE IF p.task[Head(f.todo).stream] # "done"
             THEN StreamGoto([p EXCEPT !.task[Head(f.todo).stream] = "cancel"], t, "w367")
             ELSE StreamSetTop(p, t, [f EXCEPT !.todo = Tail(@)])
        [] f.pc = "r367" ->
             StreamSetTop(p, t, [f EXCEPT !.pc = "L362", !.todo = Tail(@)])
        [] f.pc = "L375" ->
             StreamReturn([p EXCEPT !.ws_connections = [s \in Streams |-> None],
                                    !.message_handlers = [s \in Streams |-> FALSE],
                                    !.subscriptions = {},
                                    !.order = << >>],
                          t, "None")

\* subscribe, lines 224-247
StreamSubscribeStep(p, t) ==
  LET f == StreamTop(p, t)
  IN  CASE f.pc = "L242" ->
             IF f.stream \in p.subscriptions
             THEN StreamReturn(p, t, "True")
             ELSE StreamCallFn(p, t, "r247",
                               StreamFrame("connect_to_stream", "L70", f.stream))
        [] f.pc = "r247" -> StreamReturn(p, t, p.rv)

StreamWaitPcs ==
  {"w72", "w86", "w94", "w125", "w150", "w167", "w168", "w186", "w191", "w355", "w367"}

StreamAfter ==
  [pc \in StreamWaitPcs |->
     CASE pc = "w72" -> "r72"   [] pc = "w86" -> "r86"   [] pc = "w94" -> "r94"
       [] pc = "w125" -> "L134" [] pc = "w150" -> "r150" [] pc = "w167" -> "r167"
       [] pc = "w168" -> "r168" [] pc = "w186" -> "r186" [] pc = "w191" -> "r191"
       [] pc = "w355" -> "r355" [] pc = "w367" -> "r367"]

StreamStepOf(p, t) ==
  LET fn == StreamTop(p, t).fn
  IN  CASE fn = "connect_to_stream" -> ConnectToStreamStep(p, t)
        [] fn = "stream_message_handler" -> StreamMessageHandlerStep(p, t)
        [] fn = "close" -> StreamCloseStep(p, t)
        [] fn = "subscribe" -> StreamSubscribeStep(p, t)

\* task t runs from where it is to its next await
RECURSIVE StreamRun(_, _)
StreamRun(p, t) ==
  IF p.stack[t] = << >> \/ StreamTop(p, t).pc \in StreamWaitPcs
  THEN p
  ELSE StreamRun(StreamStepOf(p, t), t)

\* the variables of the combined client, which the per-stream client leaves alone
client_vars ==
  << ws, running, subscriptions, message_handler_task, ws_lock, recv_lock,
     message_queue, reconnect_delay, last_connection_attempt, stack, result,
     live, opened, outbound, hash_order, clockOn, now, cooling, wake,
     attempts, ncalls, nfailed, ninbound, wanted, closeCalled, hpass, hist >>

\* task t is suspended at one of pcs (a handler whose task was cancelled gets
\* the CancelledError instead of the result of its await)
StreamAt(t, pcs) ==
  /\ per_stream.stack[t] # << >>
  /\ StreamTop(per_stream, t).pc \in pcs
  /\ t \in Streams => per_stream.task[t] = "alive"

\* the await of task t yields v in the state p of the transport
StreamResume(p, t, v) ==
  /\ per_stream' = StreamRun([StreamGoto(p, t, StreamAfter[StreamTop(p, t).pc])
                                EXCEPT !.rv = v,
                                       !.woke = [task |-> t, pc |-> StreamTop(p, t).pc,
                                                 rv |-> v]], t)
  /\ UNCHANGED << client_vars, binance_client >>

StreamInvoke(fn, entry, stream) ==
  /\ per_stream.stack[StreamCaller] = << >>
  /\ per_stream.calls < MaxStreamCalls
  /\ per_stream' =
       StreamRun([per_stream EXCEPT !.calls = @ + 1,
                                    !.stack[StreamCaller] = << StreamFrame(fn, entry, stream) >>],
                 StreamCaller)
  /\ UNCHANGED << client_vars, binance_client >>

CallStreamSubscribe(s) == StreamInvoke("subscribe", "L242", s)
CallStreamClose == StreamInvoke("close", "L346", NoValue)

\* a handler task created at line 100 gets its first turn
StreamHandlerStarts(s) ==
  StreamAt(s, {"w125"}) /\ StreamResume(per_stream, s, "None")

\* an asyncio.sleep ends (lines 72, 186, 191)
StreamTimerFires(t) ==
  StreamAt(t, {"w72", "w186", "w191"}) /\ StreamResume(per_stream, t, "None")

\* connection_cooldown seconds have passed since last_connection_attempt
StreamCooldownExpires ==
  /\ per_stream.cooling
  /\ per_stream' = [per_stream EXCEPT !.cooling = FALSE]
  /\ UNCHANGED << client_vars, binance_client >>

\* ws.close() of lines 86 and 355 ends: the socket is closed, with the closing
\* handshake done (how = "closed_ok", code 1000) or not (how = "closed_err",
\* code 1006), and the call returns or raises (out)
StreamSocketClosed(t, how, out) ==
  /\ StreamAt(t, {"w86", "w355"})
  /\ LET k == StreamTop(per_stream, t).ws
     IN  StreamResume([per_stream EXCEPT !.sock[k] = IF @ = "open" THEN how ELSE @],
                      t, out)

\* websockets.connect() of line 94 returns a new socket
StreamConnectSucceeds(t) ==
  /\ StreamAt(t, {"w94"})
  /\ per_stream.made < MaxStreamSockets
  /\ StreamResume([per_stream EXCEPT !.made = @ + 1, !.sock[per_stream.made + 1] = "open"],
                  t, "ok")

\* websockets.connect() of line 94 raises
StreamConnectFails(t) ==
  /\ StreamAt(t, {"w94"})
  /\ per_stream.failed < MaxFailures
  /\ StreamResume([per_stream EXCEPT !.failed = @ + 1], t, "raised")

\* wait_for(ws.recv(), 30) of line 150 returns a frame
StreamRecvFrame(t) ==
  /\ StreamAt(t, {"w150"})
  /\ per_stream.sock[StreamTop(per_stream, t).ws] = "open"
  /\ StreamResume(per_stream, t, "frame")

\* ... or raises TimeoutError: nothing came for 30 s
StreamRecvTimeout(t) ==
  /\ StreamAt(t, {"w150"})
  /\ per_stream.sock[StreamTop(per_stream, t).ws] = "open"
  /\ StreamResume(per_stream, t, "timeout")

\* ... or raises ConnectionClosedError (closed_err) or ConnectionClosedOK
\* (closed_ok), as the socket was closed
StreamRecvClosed(t) ==
  /\ StreamAt(t, {"w150"})
  /\ per_stream.sock[StreamTop(per_stream, t).ws] # "open"
  /\ StreamResume(per_stream, t, per_stream.sock[StreamTop(per_stream, t).ws])

\* ws.ping() of line 167 has written the ping, or raises on a closed socket
StreamPingDone(t) ==
  /\ StreamAt(t, {"w167"})
  /\ StreamResume(per_stream, t,
                  IF per_stream.sock[StreamTop(per_stream, t).ws] = "open"
                  THEN "ok" ELSE "raised")

\* wait_for(pong_waiter, 5) of line 168: the pong arrives
StreamPong(t) ==
  /\ StreamAt(t, {"w168"})
  /\ per_stream.sock[StreamTop(per_stream, t).ws] = "open"
  /\ StreamResume(per_stream, t, "ok")

\* ... or it does not: TimeoutError, or ConnectionClosed on a closed socket
StreamPongMissing(t) ==
  /\ StreamAt(t, {"w168"})
  /\ StreamResume(per_stream, t, "raised")

\* the peer ends a connection, with a close frame (closed_ok) or without
StreamPeerDrop(k, how) ==
  /\ per_stream.sock[k] = "open"
  /\ per_stream' = [per_stream EXCEPT !.sock[k] = how, !.dropped = @ \cup {k}]
  /\ UNCHANGED << client_vars, binance_client >>

\* a handler task gets the CancelledError of task.cancel() (line 365) at its
\* await; no except clause of the handler catches it, the task ends
StreamHandlerCancelled(s) ==
  /\ per_stream.task[s] = "cancel"
  /\ per_stream' = [per_stream EXCEPT !.task[s] = "done", !.stack[s] = << >>]
  /\ UNCHANGED << client_vars, binance_client >>

\* close(), line 367: the cancelled handler task has ended
StreamHandlerAwaited ==
  /\ StreamAt(StreamCaller, {"w367"})
  /\ per_stream.task[Head(StreamTop(per_stream, StreamCaller).todo).stream] = "done"
  /\ StreamResume(per_stream, StreamCaller, "None")

StreamClosings == {"closed_ok", "closed_err"}

(* --------------------------- the REST client -------------------------- *)
\* utils/binance_client.py: get_symbols, get_klines and get_current_price
\* are each wrapped as retry(cache_result(method)), and each has the same
\* shape: one HTTP request, an Exception for a status other than 200, and
\* for an aiohttp.ClientError a call of the method itself, which is a call
\* of the wrapped method.
MAX_RETRIES == 3
RETRY_DELAY_MULTIPLIER == 2
initial_delay == 1

RestMethods == {"get_symbols", "get_klines", "get_current_price"}

\* what one HTTP request ends in: a 200 reply, a reply with another status
\* ("status"), a reply with status 418 that speaks of a ban ("banned"), an
\* aiohttp.ClientError
RestOutcomes == {"ok", "status", "banned", "client_error"}

\* The fields of binance_client:
\*   stack      the wrapper calls of retry that have not returned, the
\*              outermost first: each is the call made at the last line of the
\*              method by the one before it.  pc "w82": in the sleep before the
\*              request; "w83": awaiting the method; "w107": in the sleep
\*              before the next attempt, of retry_delay seconds
\*   cached     cache holds a result of the method called
\*   method, calls, requests, ended, error
\*              the method called, the calls made, the HTTP requests sent
\*              since the call was made, how the call ended, and the error
\*              it raised
RestClient ==
  [ stack |-> << >>, cached |-> FALSE, method |-> NoValue, calls |-> 0,
    requests |-> 0, ended |-> NoValue, error |-> NoValue ]

\* lines 76-77
RetryFrame == [retries |-> 0, current_delay |-> initial_delay, retry_delay |-> 0, pc |-> "w82"]

\* the recursive call of lines 269, 310, 341 returns what the call below it
\* returned, cache_result stores it (line 66) and retry returns it (line 83):
\* every nested call returns
RestReturn(r) == [r EXCEPT !.stack = << >>, !.cached = TRUE, !.ended = "returned"]

\* lines 93-95
RetryGivesUp(retries) == retries = MAX_RETRIES

\* lines 98-103
RetryDelay(current_delay, err) ==
  IF err = "banned" THEN current_delay * RETRY_DELAY_MULTIPLIER * 5
  ELSE current_delay * RETRY_DELAY_MULTIPLIER

\* lines 84-108: exception err reaches the except clause of the innermost
\* wrapper.  When that wrapper raises it again, the exception leaves the
\* method that awaited it (it is inside that method's except clause, lines
\* 265-269) and reaches the wrapper around that method.
RECURSIVE RestRaise(_, _)
RestRaise(r, err) ==
  LET n == Len(r.stack)
      f == r.stack[n]
      retries == f.retries + 1
  IN  IF RetryGivesUp(retries)
      THEN LET popped == [r EXCEPT !.stack = SubSeq(@, 1, n - 1)]
           IN  IF n = 1 THEN [popped EXCEPT !.ended = "raised", !.error = err]
               ELSE RestRaise(popped, err)
      ELSE [r EXCEPT !.stack[n] = [f EXCEPT !.retries = retries, !.pc = "w107",
                                            !.retry_delay = RetryDelay(f.current_delay, err)]]

RestAt(pc) ==
  /\ binance_client.stack # << >>
  /\ binance_client.stack[Len(binance_client.stack)].pc = pc

\* a caller that is in no call calls one of the three methods
RestCall(method) ==
  /\ binance_client.stack = << >>
  /\ binance_client.calls < MaxRestCalls
  /\ binance_client' =
       [binance_client EXCEPT !.stack = << RetryFrame >>, !.method = method,
                              !.calls = @ + 1, !.requests = 0,
                              !.cached = @ /\ method = binance_client.method,
                              !.ended = NoValue, !.error = NoValue]
  /\ UNCHANGED << client_vars, per_stream >>

\* line 82: the sleep before the request ends, cache_result is called and
\* looks for a result that has not expired (lines 58-61)
RestPauseEnds(fresh) ==
  /\ RestAt("w82")
  /\ fresh => binance_client.cached
  /\ binance_client' =
       IF fresh THEN RestReturn(binance_client)
       ELSE [binance_client EXCEPT !.stack[Len(binance_client.stack)].pc = "w83"]
  /\ UNCHANGED << client_vars, per_stream >>

\* the method sends its request (session.get) and the request ends
RestRequest(outcome) ==
  /\ RestAt("w83")
  /\ binance_client.requests < MaxRequests
  /\ LET r == [binance_client EXCEPT !.requests = @ + 1]
     IN  binance_client' =
           CASE outcome = "ok" -> RestReturn(r)
             [] outcome = "client_error" ->
                  \* lines 265-269: the method calls the wrapped method
                  IF Len(r.stack) < MaxRestDepth
                  THEN [r EXCEPT !.stack = Append(@, RetryFrame)]
                  ELSE RestRaise(r, "recursion")
             [] OTHER -> RestRaise(r, outcome)
  /\ UNCHANGED << client_vars, per_stream >>

\* lines 107-108: the sleep before the next attempt ends
RestDelayEnds ==
  /\ RestAt("w107")
  /\ LET n == Len(binance_client.stack)
         f == binance_client.stack[n]
     IN  binance_client' =
           [binance_client EXCEPT
              !.stack[n] = [f EXCEPT !.current_delay = f.retry_delay, !.pc = "w82"]]
  /\ UNCHANGED << client_vars, per_stream >>

NextRest ==
  \/ \E method \in RestMethods : RestCall(method)
  \/ \E fresh \in BOOLEAN : RestPauseEnds(fresh)
  \/ \E outcome \in RestOutcomes : RestRequest(outcome)
  \/ RestDelayEnds

Perms(S) ==
  {p \in [1..Cardinality(S) -> S] : \A a, b \in 1..Cardinality(S) : p[a] = p[b] => a = b}

\* the client after __init__ (lines 21-44); time is counted from then, so the
\* initial last_connection_attempt = 0 of the epoch lies a cooldown in the past
InitClient ==
  /\ ws = None
  /\ running = FALSE
  /\ subscriptions = {}
  /\ message_handler_task = [gen |-> 0, state |-> "none", failed |-> FALSE]
  /\ ws_lock = Free
  /\ recv_lock = Free
  /\ message_queue = << >>
  /\ reconnect_delay = initial_reconnect_delay
  /\ last_connection_attempt = 0 - connection_cooldown
  /\ stack = [t \in Tasks |-> << >>]
  /\ result = [t \in Callers |-> NoResult]
  /\ live = {}
  /\ opened = 0
  /\ outbound = << >>
  /\ hash_order \in Perms(Streams)
  /\ now = 0
  /\ cooling = FALSE
  /\ wake = [t \in Tasks |-> NoWake]
  /\ attempts = << >>
  /\ ncalls = 0
  /\ nfailed = 0
  /\ ninbound = 0
  /\ wanted = {}
  /\ closeCalled = FALSE
  /\ hpass = NoPass
  /\ hist = NoHist
  /\ per_stream = StreamClient
  /\ binance_client = RestClient

Init == InitClient /\ clockOn = FALSE

TaskStep(t) ==
  \/ TimerFires(t)
  \/ LockGranted(t)
  \/ SocketClosed(t)
  \/ ConnectSucceeds(t)
  \/ ConnectFails(t)
  \/ PingDone(t)
  \/ SendDone(t)
  \/ RecvNothing(t)
  \/ HandlerAwaited(t)

CallerStep(t) ==
  \/ CallConnect(t)
  \/ CallResubscribeAll(t)
  \/ CallClose(t)
  \/ \E s \in Streams : CallSubscribe(t, s) \/ CallUnsubscribe(t, s)

\* one caller, the handler task it starts, and the network
Next ==
  \/ \E t \in {"c1"} : CallerStep(t)
  \/ \E t \in Tasks : TaskStep(t)
  \/ HandlerStarts
  \/ HandlerCancelled
  \/ \E s \in 1..MaxSockets : PeerDrop(s)
  \/ CooldownExpires

Spec == Init /\ [][Next]_vars

(* ------------------------------ with a clock -------------------------- *)
\* a second passes; a sleep that is over does not outlast it
Tick ==
  /\ clockOn
  /\ now < MaxTime
  /\ \A t \in Tasks : (At(t, SleepPcs) /\ wake[t] # NoWake) => now < wake[t].hi
  /\ now' = now + 1
  /\ UNCHANGED << ws, running, subscriptions, message_handler_task, ws_lock,
                  recv_lock, message_queue, reconnect_delay,
                  last_connection_attempt, stack, result, live, opened, outbound,
                  hash_order, clockOn, cooling, wake, attempts, ncalls, nfailed,
                  ninbound, wanted, closeCalled, hpass, hist, per_stream,
                  binance_client >>

InitTimed == InitClient /\ clockOn = TRUE

\* several callers of connect(), the handler task, the network and the clock
NextTimed ==
  \/ \E t \in Callers : CallConnect(t)
  \/ \E t \in Tasks :
       \/ TimerFires(t)
       \/ LockGranted(t)
       \/ SocketClosed(t)
       \/ ConnectSucceeds(t)
       \/ ConnectFails(t)
       \/ PingDone(t)
       \/ RecvNothing(t)
  \/ HandlerStarts
  \/ \E s \in 1..MaxSockets : PeerDrop(s)
  \/ Tick

SpecTimed == InitTimed /\ [][NextTimed]_vars

(* ------------------------- frames from the peer ----------------------- *)
\* a caller that subscribes, the handler task, and the peer sending frames
NextInbound ==
  \/ \E s \in Streams : CallSubscribe("c1", s)
  \/ \E t \in {"c1", Handler} :
       \/ TimerFires(t)
       \/ LockGranted(t)
       \/ ConnectSucceeds(t)
       \/ PingDone(t)
       \/ SendDone(t)
       \/ RecvNothing(t)
       \/ RecvFrame(t)
  \/ HandlerStarts

SpecInbound == Init /\ [][NextInbound]_vars

(* ---------------------- close() beside another caller ---------------- *)
\* one caller calls close() while another one calls connect(), subscribe() or
\* resubscribe_all(); the handler task; the network
NextClose ==
  \/ CallClose("c1")
  \/ CallConnect("c2")
  \/ CallResubscribeAll("c2")
  \/ \E s \in Streams : CallSubscribe("c2", s)
  \/ \E t \in Tasks : TaskStep(t) \/ SocketCloseRaises(t)
  \/ HandlerStarts
  \/ HandlerCancelled
  \/ \E s \in 1..MaxSockets : PeerDrop(s)
  \/ CooldownExpires

SpecClose == Init /\ [][NextClose]_vars

(* ------------- frames, with callers that connect and close ------------ *)
NextReader ==
  \/ NextClose
  \/ RecvFrame(Handler)

SpecReader == Init /\ [][NextReader]_vars

(* ---------- every writer: two callers, the handler and close() --------- *)
NextWriters ==
  \/ NextClose
  \/ \E s \in Streams : CallUnsubscribe("c2", s)

SpecWriters == Init /\ [][NextWriters]_vars

(* ----- the sockets of the client: two callers, the handler, close() ----- *)
\* ws.close() raises only when the connection has failed: the library closes
\* the transport of a connection whose closing handshake it could not write
\* before it lets the error out
NextSockets ==
  \/ CallClose("c1")
  \/ CallConnect("c2")
  \/ CallResubscribeAll("c2")
  \/ \E s \in Streams : CallSubscribe("c2", s)
  \/ \E t \in Tasks : TaskStep(t) \/ SocketCloseFails(t)
  \/ HandlerStarts
  \/ HandlerCancelled
  \/ \E s \in 1..MaxSockets : PeerDrop(s)
  \/ CooldownExpires

SpecSockets == Init /\ [][NextSockets]_vars

(* -------------------------- a policy-violation close ----------------- *)
\* the peer closes socket s with code 1008; recv() on it raises
\* ConnectionClosedError from then on, a ping gets no pong
PolicyClose(s) ==
  /\ s \in live
  /\ live' = live \ {s}
  /\ hist' = [hist EXCEPT !.policyAt = now, !.backoff = reconnect_delay, !.redial = -1]
  /\ UNCHANGED << ws, running, subscriptions, message_handler_task, ws_lock,
                  recv_lock, message_queue, reconnect_delay,
                  last_connection_attempt, stack, result, opened, outbound,
                  hash_order, clockOn, now, cooling, wake, attempts, ncalls,
                  nfailed, ninbound, wanted, closeCalled, hpass, per_stream,
                  binance_client >>

\* a caller of connect(), the handler, the peer that closes with 1008, the clock
NextPolicy ==
  \/ CallConnect("c1")
  \/ \E t \in {"c1", Handler} :
       \/ TimerFires(t)
       \/ LockGranted(t)
       \/ SocketClosed(t)
       \/ ConnectSucceeds(t)
       \/ PingDone(t)
       \/ RecvNothing(t)
  \/ HandlerStarts
  \/ \E s \in 1..MaxSockets : PolicyClose(s)
  \/ Tick

SpecPolicy == InitTimed /\ [][NextPolicy]_vars

(* ------------------------- the network is down ----------------------- *)
\* await websockets.connect(self.ws_url) raises, again and again
ConnectRefused(t) == At(t, {"w70"}) /\ nfailed < MaxRefused /\ Resume(t, FALSE)

\* a caller whose connect() returned False calls it again
RetryConnect(t) ==
  /\ stack[t] = << >>
  /\ result[t].fn = "connect" /\ result[t].val = FALSE
  /\ nfailed < MaxRefused
  /\ Install(Run([Pack EXCEPT !.stack[t] = << Frame("connect", "L54", NoValue) >>,
                               !.result[t] = NoResult], t))

\* two callers of connect() while every connection attempt is refused, with
\* the clock
NextBackoff ==
  \/ \E t \in Callers :
       \/ CallConnect(t)
       \/ RetryConnect(t)
       \/ TimerFires(t)
       \/ LockGranted(t)
       \/ ConnectRefused(t)
  \/ Tick

SpecBackoff == InitTimed /\ [][NextBackoff]_vars

(* ---------------- two callers that subscribe at the same time ---------------- *)
\* two callers of subscribe() on a connection that stays up
NextOverlap ==
  \/ \E t \in Callers : \E s \in Streams : CallSubscribe(t, s)
  \/ \E t \in Callers :
       \/ TimerFires(t)
       \/ LockGranted(t)
       \/ ConnectSucceeds(t)
       \/ SendDone(t)

SpecOverlap == Init /\ [][NextOverlap]_vars

(* ------------------- a pass over a long registry, with a clock ------------------- *)
\* the names of the streams of the pacing specification
PacingNames == << "p1", "p2", "p3", "p4", "p5", "p6", "p7" >>
PacingStreams(n) == {PacingNames[k] : k \in 1..n}

\* The client after subscribe() of n streams, one after the other, has
\* returned True on its first connection: socket 1 is open, the n SUBSCRIBE
\* frames are written, the handler task waits in recv() (line 123) under
\* _recv_lock, and the last connection attempt lies a cooldown in the past.
\* Time and the history of calls are counted from here.
InitPacing ==
  \E n \in {Min(MaxBatches, Len(PacingNames))} :
    /\ ws = 1
    /\ running = TRUE
    /\ subscriptions = PacingStreams(n)
    /\ message_handler_task = [gen |-> 1, state |-> "alive", failed |-> FALSE]
    /\ ws_lock = Free
    /\ recv_lock = Handler
    /\ message_queue = << >>
    /\ reconnect_delay = initial_reconnect_delay
    /\ last_connection_attempt = 0 - connection_cooldown
    /\ stack = [t \in Tasks |->
                  IF t = Handler
                  THEN << Frame("message_handler", "r150", NoValue),
                          [Frame("_safe_recv", "w123", NoValue) EXCEPT !.sock = 1] >>
                  ELSE << >>]
    /\ result = [t \in Callers |-> NoResult]
    /\ live = {1}
    /\ opened = 1
    /\ outbound = [k \in 1..n |-> Written(1, SubscribeFrame(PacingNames[k]))]
    /\ hash_order \in {SubSeq(PacingNames, 1, n),
                        [k \in 1..n |-> PacingNames[n + 1 - k]]}
    /\ clockOn = TRUE
    /\ now = 0
    /\ cooling = FALSE
    /\ wake = [t \in Tasks |-> NoWake]
    /\ attempts = << >>
    /\ ncalls = 0
    /\ nfailed = 0
    /\ ninbound = 0
    /\ wanted = PacingStreams(n)
    /\ closeCalled = FALSE
    /\ hpass = NoPass
    /\ hist = [NoHist EXCEPT !.inserted = SubSeq(PacingNames, 1, n)]
    /\ per_stream = StreamClient
    /\ binance_client = RestClient

\* a second of the pass passes (time is counted from the call of
\* resubscribe_all); a sleep that is over does not outlast it, and a send or
\* the wait for ws_lock (held by the handler for one ping) takes less than a
\* second: slower ones only move the writes of the pass further apart
TickPacing ==
  /\ clockOn
  /\ stack["c1"] # << >>
  /\ ~At("c1", SendPcs \cup WsLockPcs)
  /\ now < MaxPacingTime
  /\ \A t \in Tasks : (At(t, SleepPcs) /\ wake[t] # NoWake) => now < wake[t].hi
  /\ now' = now + 1
  /\ UNCHANGED << ws, running, subscriptions, message_handler_task, ws_lock,
                  recv_lock, message_queue, reconnect_delay,
                  last_connection_attempt, stack, result, live, opened, outbound,
                  hash_order, clockOn, cooling, wake, attempts, ncalls, nfailed,
                  ninbound, wanted, closeCalled, hpass, hist, per_stream,
                  binance_client >>

\* a caller of resubscribe_all(), the handler that pings and reads, the clock
NextPacing ==
  \/ CallResubscribeAll("c1")
  \/ TimerFires("c1")
  \/ SendDone("c1")
  \/ \E t \in {"c1", Handler} : LockGranted(t)
  \/ PingDone(Handler)
  \/ RecvNothing(Handler)
  \/ TickPacing

SpecPacing == InitPacing /\ [][NextPacing]_vars

(* ----------- the per-stream client: one caller, its handlers ----------- *)
\* one caller that makes subscribe() and close() calls one after the other,
\* the handler tasks of the streams, and the network
NextStreams ==
  \/ \E s \in Streams : CallStreamSubscribe(s)
  \/ CallStreamClose
  \/ \E s \in Streams : StreamHandlerStarts(s)
  \/ \E t \in StreamTasks : StreamTimerFires(t)
  \/ StreamCooldownExpires
  \/ \E t \in StreamTasks : \E how \in StreamClosings : \E out \in {"ok", "raised"} :
       StreamSocketClosed(t, how, out)
  \/ \E t \in StreamTasks : StreamConnectSucceeds(t)
  \/ \E t \in StreamTasks : StreamConnectFails(t)
  \/ \E s \in Streams : StreamRecvFrame(s)
  \/ \E s \in Streams : StreamRecvTimeout(s)
  \/ \E s \in Streams : StreamRecvClosed(s)
  \/ \E s \in Streams : StreamPingDone(s)
  \/ \E s \in Streams : StreamPong(s)
  \/ \E s \in Streams : StreamPongMissing(s)
  \/ \E k \in 1..MaxStreamSockets : \E how \in StreamClosings : StreamPeerDrop(k, how)
  \/ \E s \in Streams : StreamHandlerCancelled(s)
  \/ StreamHandlerAwaited

SpecStreams == Init /\ [][NextStreams]_vars

(* ------------- either client, its handler and a silent or lost peer ------------- *)
\* A program uses one of the two clients: the first call decides which.
\* The combined client: a caller of subscribe(), the handler, a peer that
\* sends nothing or goes away.
NextHeartbeatCombined ==
  \/ per_stream.calls = 0 /\ \E s \in Streams : CallSubscribe("c1", s)
  \/ \E t \in {"c1", Handler} :
       \/ TimerFires(t)
       \/ LockGranted(t)
       \/ SocketClosed(t)
       \/ ConnectSucceeds(t)
       \/ ConnectFails(t)
       \/ SendDone(t)
  \/ HandlerStarts
  \/ PingDone(Handler)
  \/ RecvNothing(Handler)
  \/ \E s \in 1..MaxSockets : PeerDrop(s)
  \/ CooldownExpires

\* The per-stream client: a caller of subscribe(), the handlers, the same peer.
NextHeartbeatStreams ==
  \/ ncalls = 0 /\ \E s \in Streams : CallStreamSubscribe(s)
  \/ \E s \in Streams : StreamHandlerStarts(s)
  \/ \E t \in StreamTasks : StreamTimerFires(t)
  \/ StreamCooldownExpires
  \/ \E t \in StreamTasks : \E how \in StreamClosings : StreamSocketClosed(t, how, "ok")
  \/ \E t \in StreamTasks : StreamConnectSucceeds(t)
  \/ \E t \in StreamTasks : StreamConnectFails(t)
  \/ \E s \in Streams : StreamRecvTimeout(s)
  \/ \E s \in Streams : StreamRecvClosed(s)
  \/ \E s \in Streams : StreamPingDone(s)
  \/ \E s \in Streams : StreamPong(s)
  \/ \E s \in Streams : StreamPongMissing(s)
  \/ \E k \in 1..MaxStreamSockets : \E how \in StreamClosings : StreamPeerDrop(k, how)

NextHeartbeat == NextHeartbeatCombined \/ NextHeartbeatStreams

SpecHeartbeat == Init /\ [][NextHeartbeat]_vars

(* ------------- the per-stream client under a fair event loop ------------- *)
\* the steps of the handler task of stream s: whatever it awaits ends
HandlerMoves(s) ==
  \/ StreamHandlerStarts(s)
  \/ StreamTimerFires(s)
  \/ \E how \in StreamClosings : StreamSocketClosed(s, how, "ok")
  \/ StreamConnectSucceeds(s)
  \/ StreamConnectFails(s)
  \/ StreamRecvTimeout(s)
  \/ StreamRecvClosed(s)
  \/ StreamPingDone(s)
  \/ StreamPong(s)
  \/ StreamPongMissing(s)

\* The event loop runs every task that is ready (its ready queue is first in,
\* first out), timers fire, and an await on the network ends in one way or
\* another: no handler task that can move is left waiting for ever.
SpecReconnect ==
  /\ Init
  /\ [][NextHeartbeatStreams]_vars
  /\ \A s \in Streams : WF_vars(HandlerMoves(s))

(* ------------------------------ the claims ---------------------------- *)
\* a SUBSCRIBE frame for stream was written on socket s
SubscribeSentOn(s, stream) ==
  \E k \in 1..Len(outbound) : outbound[k] = Written(s, SubscribeFrame(stream))

\* caller t's API call returns in this step
Returned(t) == result'[t] # NoResult /\ result'[t] # result[t]

\* caller t makes the API call fn(stream) in this step
Invoked(t, fn, stream) ==
  /\ stack[t] = << >>
  /\ ncalls' = ncalls + 1
  /\ \/ /\ stack'[t] # << >>
        /\ stack'[t][1].fn = fn /\ stack'[t][1].stream = stream
        /\ stack'[t][1].seq = ncalls'
     \/ /\ stack'[t] = << >>
        /\ result'[t].fn = fn /\ result'[t].stream = stream
        /\ result'[t].seq = ncalls'

\* some task is inside subscribe, unsubscribe or resubscribe_all
RegistryCallInProgress ==
  \E t \in Tasks : \E k \in 1..Len(stack[t]) :
    stack[t][k].fn \in {"subscribe", "unsubscribe", "resubscribe_all"}

\* C1: a stream that was added to self.subscriptions and that no unsubscribe
\* has removed is in self.subscriptions in every reachable state before
\* close(): no reconnect and no resubscribe_all pass removes it.
C1_RegistryKeepsStreams == closeCalled \/ wanted \subseteq subscriptions

\* C2: when the message handler has reconnected after a connection loss and
\* its resubscribe_all pass over the k streams of the registry has ended, a
\* SUBSCRIBE frame for each of the k streams has been written on the new
\* socket (as long as that socket is still the client's connection).
C2_HandlerReconnectResubscribes ==
  (hpass.done /\ ws = hpass.sock /\ hpass.sock \in live)
    => \A stream \in hpass.snap : SubscribeSentOn(hpass.sock, stream)

\* C2, witness: the handler finished a pass over two streams on a socket that
\* replaced an earlier one and is still open.
C2_Witness ==
  /\ hpass.done /\ ws = hpass.sock /\ hpass.sock \in live
  /\ hpass.sock > 1
  /\ hpass.snap = Streams
  /\ \A stream \in Streams : SubscribeSentOn(hpass.sock, stream)

\* C3: whenever the client is connected and no subscribe, unsubscribe or
\* resubscribe_all is in progress, every stream of the registry has had a
\* SUBSCRIBE frame written on the current socket.
C3_SocketFollowsRegistry ==
  (running /\ ws # None /\ ws \in live /\ ~RegistryCallInProgress)
    => \A stream \in subscriptions : SubscribeSentOn(ws, stream)

\* C4: when a subscribe(S) that was called while the client was not connected
\* returns, S is in the registry, whatever it returns.
C4_SubscribeAlwaysRegisters ==
  [][\A t \in Callers :
       (Returned(t) /\ result'[t].fn = "subscribe" /\ result'[t].disc)
         => result'[t].stream \in subscriptions']_vars

\* C5: when unsubscribe(S) returns, S is not in the registry, whatever the
\* connection state and whatever became of the UNSUBSCRIBE frame.
C5_UnsubscribeAlwaysRemoves ==
  [][\A t \in Callers :
       (Returned(t) /\ result'[t].fn = "unsubscribe")
         => result'[t].stream \notin subscriptions']_vars

\* C6: when the second call of subscribe(S); subscribe(S) returns, within the
\* connected session in which the first one returned, the registry is what
\* the first call left and the two calls together wrote at most one
\* SUBSCRIBE frame for S.
C6_SubscribeTwice ==
  [][\A t \in Callers :
       (/\ Returned(t)
        /\ result'[t].fn = "subscribe"
        /\ result'[t].first.is
        /\ ws' = result'[t].first.sock)
         => /\ subscriptions' = result'[t].first.reg
            /\ result'[t].first.sent + result'[t].sent <= 1]_vars

\* C6, witness: a second subscribe(S) has returned on the socket of the
\* first, and the first call wrote the SUBSCRIBE frame for S.
C6_Witness ==
  \E t \in Callers :
    /\ result[t].fn = "subscribe"
    /\ result[t].first.is
    /\ result[t].first.sent = 1
    /\ result[t].val = TRUE
    /\ ws = result[t].first.sock /\ ws \in live

\* C7: subscribe of a stream that is in the registry and unsubscribe of a
\* stream that is not are no-ops, connected or not: the call returns at once
\* and registry, socket, running flag and reconnect_delay are unchanged, no
\* connection is attempted, nothing is closed and no frame is written.
C7_RedundantCallsAreNoOps ==
  [][\A t \in Callers : \A stream \in Streams :
       (\/ Invoked(t, "subscribe", stream) /\ stream \in subscriptions
        \/ Invoked(t, "unsubscribe", stream) /\ stream \notin subscriptions)
         => /\ stack'[t] = << >>
            /\ UNCHANGED << subscriptions, ws, running, reconnect_delay, live,
                            outbound, last_connection_attempt >>]_vars

\* C8: a connect() called while a socket is open, or while another connect()
\* is in progress, neither closes the existing socket nor starts a
\* connection attempt.
C8_ConnectWhileConnectedIsNoOp ==
  \A t \in Callers :
    (stack[t] # << >> /\ stack[t][1].fn = "connect" /\ stack[t][1].busy)
      => stack[t][1].pc \notin {"w65", "w70"}

\* C9: while close() has not been called, the message handler whose
\* reconnect attempt failed has not stopped: it is still in its loop, to try
\* again.
C9_HandlerSurvivesFailedReconnect ==
  (message_handler_task.failed /\ ~closeCalled) => message_handler_task.state # "done"
\* C10: the start times of any two connection attempts of the client are at
\* least connection_cooldown seconds apart, whatever the interleaving of the
\* tasks that call connect().
C10_AttemptsCooldownApart ==
  \A i \in 1..(Len(attempts) - 1) : attempts[i + 1] - attempts[i] >= connection_cooldown

\* C11: the delay slept after the n-th consecutive failed connect() (n = 0,
\* 1, ..., no successful connect in between) is min(1 * 2^n, 300) seconds, and
\* reconnect_delay is within [1, max_reconnect_delay] in every state.
C11_BackoffDelays ==
  /\ reconnect_delay \in initial_reconnect_delay..max_reconnect_delay
  /\ \A n \in 1..Len(hist.delays) :
       hist.delays[n] = Min(initial_reconnect_delay * 2^(n - 1), max_reconnect_delay)

\* C12: a successful connect() resets reconnect_delay to the base value:
\* while no connect() has failed since the last successful one (or since the
\* client was built), reconnect_delay is 1, so that the first failure after a
\* success sleeps the base delay.
C12_SuccessResetsDelay ==
  hist.delays = << >> => reconnect_delay = initial_reconnect_delay

\* C13: after the peer closed the connection with the policy-violation code
\* 1008, the handler's next connection attempt is made at least
\* initial_too_many_requests_pause (60) seconds later, and later than the
\* ordinary backoff delay (the reconnect_delay at the time of the close) would
\* have made it.
C13_PolicyCloseDelaysReconnect ==
  hist.redial >= 0 =>
    /\ hist.redial >= initial_too_many_requests_pause
    /\ hist.redial > hist.backoff

\* the closed state: not running, no socket held, no message handler task
InClosedState ==
  /\ ~running
  /\ ws = None
  /\ message_handler_task.state \notin {"alive", "cancel"}

\* C14: closed is terminal: after close() has returned, and whatever
\* subscribe, unsubscribe or resubscribe_all calls the caller makes afterwards
\* (no explicit connect()), the client stays in the closed state.
C14_ClosedIsTerminal ==
  (hist.closed /\ "connect" \notin hist.later) => InClosedState

\* C15: whatever another task was doing when close() was called (a connect(),
\* a subscribe(), a backoff sleep, a resubscription pass), once close() has
\* returned, and as long as no API call is made after that, the client is in
\* the closed state and no task is making a connection attempt.
C15_CloseStopsEverything ==
  (hist.closed /\ hist.later = {}) =>
    /\ InClosedState
    /\ \A t \in Tasks : ~At(t, {"w70"})

\* C16: when a close() call of the per-stream client has returned, it left the
\* client in the closed state: running is False, ws_connections is empty and
\* every message handler task has finished, whether the transport's close()
\* returned or raised.
C16_CloseEndsClosed ==
  per_stream.closed.done =>
    /\ ~per_stream.closed.running
    /\ per_stream.closed.held = {}
    /\ per_stream.closed.tasks = {}

\* C17: a resubscribe_all pass that has taken its snapshot calls subscribe for
\* every stream of the snapshot, also after an earlier call of the pass
\* failed, and returns False exactly when at least one of these calls failed.
C17_PassCoversSnapshot ==
  hist.pass.done =>
    /\ hist.pass.tried = hist.pass.snap
    /\ hist.pass.ret = (hist.pass.failed = 0)

\* a finished pass over two streams whose first subscribe failed
C17_Witness ==
  /\ hist.pass.done
  /\ Len(hist.pass.snap) = 2
  /\ hist.pass.failed >= 1
  /\ hist.pass.tried = hist.pass.snap
  /\ ~hist.pass.ret

\* the step in which recv() returns the frame `message` to the handler
Received(message) == hist'.inbound = Append(hist.inbound, message)

\* C18: a frame that is not JSON is dropped and does not end the read loop:
\* the step that receives it puts nothing on message_queue, leaves the socket,
\* the running flag, the registry and reconnect_delay as they were and leaves
\* the handler running; every frame that is JSON, also one that follows a
\* dropped frame, is put on message_queue.
C18_UndecodableFrameDropped ==
  [][\A message \in InboundFrames(ws) :
       Received(message) =>
         IF message.wellformed
         THEN message_queue' = Append(message_queue, message.body)
         ELSE /\ UNCHANGED << message_queue, ws, running, subscriptions, reconnect_delay >>
              /\ message_handler_task'.state = "alive"
              /\ stack'[Handler] # << >>]_vars

\* a frame that is not JSON was dropped and the kline frame after it was queued
C18_Witness ==
  /\ Len(hist.inbound) = 2
  /\ ~hist.inbound[1].wellformed
  /\ hist.inbound[2].wellformed
  /\ message_queue = << hist.inbound[2].body >>
  /\ message_queue[1].e = "kline"

\* C19: an inbound frame that is the reply to an outstanding SUBSCRIBE or
\* UNSUBSCRIBE request (it carries the id of a request written on the socket
\* and not answered yet) is consumed as the acknowledgement of that request:
\* the step that receives it puts nothing on message_queue.
C19_ReplyNotDelivered ==
  [][\A id \in 1..Len(outbound) :
       ( /\ Received(Text(Reply(id)))
         /\ \A k \in 1..Len(hist.inbound) : hist.inbound[k] # Text(Reply(id)) )
       => UNCHANGED message_queue]_vars

\* C20: after any sequence of kline frames has been dispatched, what the
\* client holds for a stream has at most one entry per openTime (a later
\* update of the same candle replaces the earlier one).
C20_OneCandlePerOpenTime ==
  \A i, j \in 1..Len(message_queue) :
    ( /\ i < j
      /\ message_queue[i].e = "kline" /\ message_queue[j].e = "kline"
      /\ message_queue[i].stream = message_queue[j].stream )
    => message_queue[i].openTime # message_queue[j].openTime

\* C21: a resubscribe_all pass calls subscribe, and so writes its SUBSCRIBE
\* frames, for the streams of its snapshot in the order in which they were
\* first inserted into the registry.
C21_PassInInsertionOrder ==
  (hist.pass.done /\ Len(hist.pass.inserted) = Len(hist.pass.snap)) =>
    hist.pass.tried = hist.pass.inserted

\* C22: a resubscribe_all pass during which unsubscribe(S) or subscribe(T)
\* calls were made and returned True still calls subscribe for exactly the
\* streams of its snapshot, and when it returns the registry contains every
\* such T and no such S (S with no subscribe(S) call after the unsubscribe).
C22_PassKeepsConcurrentCalls ==
  hist.pass.done =>
    /\ hist.pass.tried = hist.pass.snap
    /\ hist.pass.sub \subseteq hist.pass.reg
    /\ hist.pass.unsub \cap hist.pass.reg = {}

\* C23: two subscribe(S) calls of which the second was made on a connected
\* client before the first had returned write, together, at most one
\* SUBSCRIBE frame for S.
C23_OverlappingSubscribesSendOnce ==
  \A t, u \in Callers :
     ( /\ hist.overlap.is
       /\ result[t].seq = hist.overlap.a /\ result[t].fn = "subscribe"
       /\ result[u].seq = hist.overlap.b /\ result[u].fn = "subscribe" )
     => result[t].sent + result[u].sent <= 1

\* C24: within a resubscribe_all pass the writes of the SUBSCRIBE frames of
\* two consecutive batches are at least subscription_batch_delay (10 s)
\* apart, and at least global_pause_duration (30 s) apart when the first of
\* the two is a global_pause_interval-th (5th, 10th, ...) batch.
C24_BatchesPaced ==
  \A t \in Tasks : \A k \in 1..Len(stack[t]) :
     stack[t][k].fn = "resubscribe_all" =>
       /\ stack[t][k].pace.minBatch \in {-1} \cup (subscription_batch_delay..MaxPacingTime)
       /\ stack[t][k].pace.minGlobal \in {-1} \cup (global_pause_duration..MaxPacingTime)

\* a pass has written the frame of its sixth batch, after the global pause
C24_Witness ==
  \E t \in Tasks : \E k \in 1..Len(stack[t]) :
     /\ stack[t][k].fn = "resubscribe_all"
     /\ stack[t][k].pace.batch = global_pause_interval + 1
     /\ stack[t][k].pace.minBatch >= subscription_batch_delay
     /\ stack[t][k].pace.minGlobal >= global_pause_duration

\* C25: when the wait for a frame ends with nothing, the handler pings the
\* socket it read; when the ping or the wait for the pong fails it calls
\* connect() (connect_to_stream() in the per-stream client), and when the pong
\* arrives it keeps the socket and makes no connection attempt.
\* The combined client: _safe_recv returns None, _is_connection_active pings.
C25_Combined ==
  LET was == stack[Handler][Len(stack[Handler])]
      is == stack'[Handler][Len(stack'[Handler])]
      stepped == stack[Handler] # << >> /\ stack'[Handler] # stack[Handler]
  IN  /\ ( /\ stepped /\ was.pc = "w123" /\ hist'.inbound = hist.inbound
           /\ running /\ ws # None )
        => /\ stack'[Handler] # << >>
           /\ is.fn = "_is_connection_active"
           /\ is.pc = "w102" => is.sock = was.sock
      /\ (stepped /\ was.pc = "w102" /\ was.sock \notin live)
        => stack'[Handler] # << >> /\ is.fn = "connect"
      /\ (stepped /\ was.pc = "w102" /\ was.sock \in live)
        => /\ stack'[Handler] # << >> /\ is.fn = "_safe_recv"
           /\ ws' = ws /\ opened' = opened /\ live' = live

\* The per-stream client: lines 163-175 of stream_message_handler.
C25_Streams ==
  \A s \in Streams :
    LET was == StreamTop(per_stream, s)
        is == StreamTop(per_stream', s)
        woke == per_stream'.woke
        stepped == /\ per_stream.stack[s] # << >>
                   /\ per_stream'.stack[s] # per_stream.stack[s]
                   /\ woke.task = s /\ woke.pc = was.pc
    IN  /\ (stepped /\ was.pc = "w150" /\ woke.rv = "timeout")
          => /\ per_stream'.stack[s] # << >>
             /\ is.pc = "w167" /\ is.ws = was.ws
        /\ (stepped /\ was.pc \in {"w167", "w168"} /\ woke.rv = "raised")
          => per_stream'.stack[s] # << >> /\ is.fn = "connect_to_stream"
        /\ (stepped /\ was.pc = "w168" /\ woke.rv = "ok")
          => /\ per_stream'.ws_connections = per_stream.ws_connections
             /\ per_stream'.made = per_stream.made
             /\ per_stream'.sock = per_stream.sock
             /\ per_stream'.stack[s] # << >> => is.fn = "stream_message_handler"

C25_TimeoutPingsThenDecides == [][C25_Combined /\ C25_Streams]_vars

\* a handler of the per-stream client whose pong did not come is reconnecting
C25_Witness ==
  \E s \in Streams :
     /\ Len(per_stream.stack[s]) = 2
     /\ per_stream.stack[s][1].pc = "r172"
     /\ per_stream.stack[s][2].fn = "connect_to_stream"
     /\ per_stream.woke = [task |-> s, pc |-> "w168", rv |-> "raised"]

\* C26: in the per-stream client, whenever the socket a running handler
\* holds for its stream has been closed by the peer, with or without a close
\* frame, the handler eventually calls connect_to_stream for the stream.
PeerClosed(s) ==
  /\ per_stream.running
  /\ per_stream.task[s] = "alive"
  /\ per_stream.ws_connections[s] \in per_stream.dropped

InConnectToStream(s) ==
  \E k \in 1..Len(per_stream.stack[s]) : per_stream.stack[s][k].fn = "connect_to_stream"

C26_PeerCloseLeadsToReconnect ==
  \A s \in Streams : PeerClosed(s) ~> InConnectToStream(s)

\* C27: in the combined client no handler task is created while an earlier
\* one has not ended, at most one task waits in recv(), that task is the
\* handler and holds _recv_lock, and message_queue holds the data of the
\* frames that decoded, in the order in which recv() returned them.
Decoded(frames) ==
  LET ok == SelectSeq(frames, LAMBDA message : JsonLoads(message).ok)
  IN  [k \in 1..Len(ok) |-> JsonLoads(ok[k]).data]

C27_OneReaderInOrder ==
  /\ ~hist.twin
  /\ Cardinality({t \in Tasks : At(t, {"w123"})}) <= 1
  /\ \A t \in Tasks : At(t, {"w123"}) => t = Handler /\ recv_lock = t
  /\ message_queue = Decoded(hist.inbound)

C27_Witness ==
  /\ message_handler_task.gen >= 2
  /\ message_handler_task.state = "alive"
  /\ At(Handler, {"w123"})
  /\ Len(message_queue) >= 1
  /\ Len(hist.inbound) = MaxFrames

\* C28: in the combined client a task that is writing to the socket (SUBSCRIBE
\* or UNSUBSCRIBE send, ping and the wait for its pong), closing it or opening
\* its replacement holds ws_lock, so no two tasks are in such an operation at
\* once, and self.ws changes only in a step taken while ws_lock is held.
SocketOpPcs == ClosePcs \cup SendPcs \cup {"w70", "w102"}

InSocketOp(t) == stack[t] # << >> /\ TopFrame(t).pc \in SocketOpPcs

C28_SocketOpsUnderWsLock ==
  /\ [](\A t \in Tasks : InSocketOp(t) => ws_lock = t)
  /\ [][ws' # ws => ws_lock # Free]_vars

C28_Witness ==
  /\ InSocketOp("c2") /\ TopFrame("c2").pc = "w268" /\ ws_lock = "c2"
  /\ At(Handler, {"w101"})

\* C29: in the combined client at most one task is inside
\* websockets.connect() at any time and that task holds ws_lock; no socket is
\* open while it is there (the socket the client held has been closed), and
\* at most one socket is open in every state.
Connecting(t) == stack[t] # << >> /\ TopFrame(t).pc = "w70"

C29_OneAttemptOneSocket ==
  /\ Cardinality({t \in Tasks : Connecting(t)}) <= 1
  /\ \A t \in Tasks : Connecting(t) => ws_lock = t /\ live = {}
  /\ Cardinality(live) <= 1

\* the handler reconnects after a drop, holding the lock, while a caller's
\* connect() waits for the lock; one socket has been opened and closed already
C29_Witness ==
  /\ Connecting(Handler)
  /\ At("c2", {"w62"})
  /\ opened >= 1

SpecRest == Init /\ [][NextRest]_vars

\* C30: a call of a REST method wrapped by retry sends at most MAX_RETRIES
\* requests, whatever the requests end in.
C30_AtMostMaxRetriesRequests == binance_client.requests <= MAX_RETRIES

====
